---- MODULE Spec2Model ----
(***************************************************************************)
(* BPMNml: the scope provider, the validator and the BPMN XML generator    *)
(* over a parsed model tree.                                               *)
(*                                                                         *)
(* The tree is built in document order (an element is appended to the      *)
(* container that is currently open), then the connection references are   *)
(* linked, then the validation checks run over the tree in document order, *)
(* and generateXML compiles the tree.                                      *)
(***************************************************************************)
EXTENDS Integers, Sequences, FiniteSets, TLC

VARIABLES
    elems,        \* the model tree: element i of the document, in document order
    pc,           \* "parse" | "link" | "linked" | "validated" | "generated" | "written" | "exit"
    nlinked,      \* number of connection references the linker has processed
    scopes,       \* connection -> candidate set getScopeForConnection returned for it
    diagnostics,  \* diagnostics accepted so far, in order
    gen,          \* fields of the BPMNXMLGenerator instance
    calls,        \* identifier lookups of the current generateXML invocation
    out,          \* result of the last generateXML invocation
    reused        \* the generator instance was used before its last invocation: "fresh"
                  \* (it was not), "same" (on this tree), "other" (on an earlier tree)

vars == <<elems, pc, nlinked, scopes, diagnostics, gen, calls, out, reused>>

-----------------------------------------------------------------------------
(* Bounds of the explored trees. *)

\* Elements (nodes, connections, pools, lanes) of a document.
MaxElems == 5
\* Connections among them.
MaxConns == 1

-----------------------------------------------------------------------------
(* The model tree (generated/ast.ts: BPMN, Pool, Lane, Node, Connection).   *)

\* The BPMN root as a $container value.
Root == 0
\* An unresolved reference (ref === undefined) and an absent result.
Undefined == 0

NodeTypes == {"Event", "Task", "Gateway"}

N == Len(elems)
Ids == [i \in 1..N |-> i]

isNode(i) == elems[i].type \in NodeTypes
NodeIds == {i \in 1..N : isNode(i)}
ConnIds == {i \in 1..N : elems[i].type = "Connection"}
PoolIds == {i \in 1..N : elems[i].type = "Pool"}
LaneIds == {i \in 1..N : elems[i].type = "Lane"}

\* container.elements, in declaration order (model.elements for Root).
Children(container) == SelectSeq(Ids, LAMBDA i : elems[i].parent = container)

Range(s) == {s[i] : i \in DOMAIN s}

Elem(type, name, parent, subtype, connector, label) ==
    [type |-> type, name |-> name, parent |-> parent, subtype |-> subtype,
     connector |-> connector, source |-> Undefined, target |-> Undefined,
     label |-> label]

-----------------------------------------------------------------------------
(* Validator: bpmn-validator.ts                                            *)

Diag(severity, message, node, property) ==
    [severity |-> severity, message |-> message, node |-> node, property |-> property]

RECURSIVE PoolAbove(_)
PoolAbove(current) ==
    IF current = Root THEN Undefined
    ELSE IF elems[current].type = "Pool" THEN current
    ELSE PoolAbove(elems[current].parent)

\* findPoolForNode that looks at the direct container only.
findPoolForNodeNoAscent(node) ==
    IF elems[node].parent # Root /\ elems[elems[node].parent].type = "Pool"
    THEN elems[node].parent ELSE Undefined

findPoolForNode(node) == PoolAbove(elems[node].parent)

\* checkConnection without the same-pool rejection of message flows.
checkConnectionSamePoolMessage(c) ==
    LET connection == elems[c]
        resolved == connection.source # Undefined /\ connection.target # Undefined
        sourcePool == findPoolForNode(connection.source)
        targetPool == findPoolForNode(connection.target)
        isMessageFlow == connection.connector = "~~>"
    IN  (IF connection.source = Undefined
         THEN <<Diag("error", "Connection source node is not defined.", c, "source")>>
         ELSE <<>>)
        \o
        (IF connection.target = Undefined
         THEN <<Diag("error", "Connection target node is not defined.", c, "target")>>
         ELSE <<>>)
        \o
        (IF ~resolved THEN <<>>
         ELSE IF isMessageFlow
         THEN IF sourcePool = Undefined \/ targetPool = Undefined
              THEN <<Diag("error", "Message flows must connect nodes in different pools.", c, "")>>
              ELSE <<>>
         ELSE IF sourcePool # Undefined /\ targetPool # Undefined /\ sourcePool # targetPool
              THEN <<Diag("error", "Connections cannot cross pool boundaries.", c, "")>>
              ELSE IF (sourcePool # Undefined /\ targetPool = Undefined)
                       \/ (sourcePool = Undefined /\ targetPool # Undefined)
              THEN <<Diag("error", "Connections cannot mix pooled and unpooled nodes.", c, "")>>
              ELSE <<>>)
        \o
        (IF resolved /\ connection.source = connection.target
         THEN <<Diag("warning", "Self-loops are not recommended in BPMN.", c, "")>>
         ELSE <<>>)

\* checkConnection with the self-loop test on the references as they are,
\* resolved or not.
checkConnectionSelfLoopUnguarded(c) ==
    LET connection == elems[c]
        resolved == connection.source # Undefined /\ connection.target # Undefined
        sourcePool == findPoolForNode(connection.source)
        targetPool == findPoolForNode(connection.target)
        isMessageFlow == connection.connector = "~~>"
    IN  (IF connection.source = Undefined
         THEN <<Diag("error", "Connection source node is not defined.", c, "source")>>
         ELSE <<>>)
        \o
        (IF connection.target = Undefined
         THEN <<Diag("error", "Connection target node is not defined.", c, "target")>>
         ELSE <<>>)
        \o
        (IF ~resolved THEN <<>>
         ELSE IF isMessageFlow
         THEN IF sourcePool = Undefined \/ targetPool = Undefined
              THEN <<Diag("error", "Message flows must connect nodes in different pools.", c, "")>>
              ELSE IF sourcePool = targetPool
              THEN <<Diag("error", "Message flows cannot connect nodes within the same pool.", c, "")>>
              ELSE <<>>
         ELSE IF sourcePool # Undefined /\ targetPool # Undefined /\ sourcePool # targetPool
              THEN <<Diag("error", "Connections cannot cross pool boundaries.", c, "")>>
              ELSE IF (sourcePool # Undefined /\ targetPool = Undefined)
                       \/ (sourcePool = Undefined /\ targetPool # Undefined)
              THEN <<Diag("error", "Connections cannot mix pooled and unpooled nodes.", c, "")>>
              ELSE <<>>)
        \o
        (IF connection.source = connection.target
         THEN <<Diag("warning", "Self-loops are not recommended in BPMN.", c, "")>>
         ELSE <<>>)

\* checkConnection with the pool tests on the references as they are,
\* resolved or not.
checkConnectionPoolsUnguarded(c) ==
    LET connection == elems[c]
        resolved == connection.source # Undefined /\ connection.target # Undefined
        sourcePool == IF connection.source = Undefined THEN Undefined
                      ELSE findPoolForNode(connection.source)
        targetPool == IF connection.target = Undefined THEN Undefined
                      ELSE findPoolForNode(connection.target)
        isMessageFlow == connection.connector = "~~>"
    IN  (IF connection.source = Undefined
         THEN <<Diag("error", "Connection source node is not defined.", c, "source")>>
         ELSE <<>>)
        \o
        (IF connection.target = Undefined
         THEN <<Diag("error", "Connection target node is not defined.", c, "target")>>
         ELSE <<>>)
        \o
        (IF isMessageFlow
         THEN IF sourcePool = Undefined \/ targetPool = Undefined
              THEN <<Diag("error", "Message flows must connect nodes in different pools.", c, "")>>
              ELSE IF sourcePool = targetPool
              THEN <<Diag("error", "Message flows cannot connect nodes within the same pool.", c, "")>>
              ELSE <<>>
         ELSE IF sourcePool # Undefined /\ targetPool # Undefined /\ sourcePool # targetPool
              THEN <<Diag("error", "Connections cannot cross pool boundaries.", c, "")>>
              ELSE IF (sourcePool # Undefined /\ targetPool = Undefined)
                       \/ (sourcePool = Undefined /\ targetPool # Undefined)
              THEN <<Diag("error", "Connections cannot mix pooled and unpooled nodes.", c, "")>>
              ELSE <<>>)
        \o
        (IF resolved /\ connection.source = connection.target
         THEN <<Diag("warning", "Self-loops are not recommended in BPMN.", c, "")>>
         ELSE <<>>)

checkConnection(c) ==
    LET connection == elems[c]
        resolved == connection.source # Undefined /\ connection.target # Undefined
        sourcePool == findPoolForNode(connection.source)
        targetPool == findPoolForNode(connection.target)
        isMessageFlow == connection.connector = "~~>"
    IN  (IF connection.source = Undefined
         THEN <<Diag("error", "Connection source node is not defined.", c, "source")>>
         ELSE <<>>)
        \o
        (IF connection.target = Undefined
         THEN <<Diag("error", "Connection target node is not defined.", c, "target")>>
         ELSE <<>>)
        \o
        (IF ~resolved THEN <<>>
         ELSE IF isMessageFlow
         THEN IF sourcePool = Undefined \/ targetPool = Undefined
              THEN <<Diag("error", "Message flows must connect nodes in different pools.", c, "")>>
              ELSE IF sourcePool = targetPool
              THEN <<Diag("error", "Message flows cannot connect nodes within the same pool.", c, "")>>
              ELSE <<>>
         ELSE IF sourcePool # Undefined /\ targetPool # Undefined /\ sourcePool # targetPool
              THEN <<Diag("error", "Connections cannot cross pool boundaries.", c, "")>>
              ELSE IF (sourcePool # Undefined /\ targetPool = Undefined)
                       \/ (sourcePool = Undefined /\ targetPool # Undefined)
              THEN <<Diag("error", "Connections cannot mix pooled and unpooled nodes.", c, "")>>
              ELSE <<>>)
        \o
        (IF resolved /\ connection.source = connection.target
         THEN <<Diag("warning", "Self-loops are not recommended in BPMN.", c, "")>>
         ELSE <<>>)

-----------------------------------------------------------------------------
(* Scope provider: bpmn-scope-provider.ts                                  *)

RECURSIVE ContainerAbove(_)
ContainerAbove(current) ==
    IF current = Root THEN Undefined
    ELSE IF elems[current].type \in {"Pool", "Lane"} THEN current
    ELSE ContainerAbove(elems[current].parent)

findContainer(node) == ContainerAbove(elems[node].parent)

findPool(node) == PoolAbove(elems[node].parent)

RECURSIVE collectNodesFromElements(_)
collectNodesFromElements(elements) ==
    IF elements = <<>> THEN <<>>
    ELSE LET element == Head(elements)
         IN  (IF isNode(element) THEN <<element>>
              ELSE IF elems[element].type = "Lane"
              THEN collectNodesFromElements(Children(element))
              ELSE <<>>)
             \o collectNodesFromElements(Tail(elements))

\* collectNodesFromContainer that does not descend into lanes.
collectNodesFromContainerFlat(container) == SelectSeq(Children(container), isNode)

collectNodesFromContainer(container) == collectNodesFromElements(Children(container))

\* The global scope descending into the pools and lanes.
collectGlobalNodesDescending == SelectSeq(Ids, isNode)

collectGlobalNodes == SelectSeq(Children(Root), isNode)

RECURSIVE collectNodesFromPoolElements(_)
collectNodesFromPoolElements(elements) ==
    IF elements = <<>> THEN <<>>
    ELSE (IF elems[Head(elements)].type = "Pool"
          THEN collectNodesFromContainer(Head(elements)) ELSE <<>>)
         \o collectNodesFromPoolElements(Tail(elements))

collectNodesFromPools == collectNodesFromPoolElements(Children(Root))

\* The scope provider before lanes became transparent and message flows were
\* resolved over all pools: the nearest container of the connection alone.
getScopeForConnectionLaneLocal(connection) ==
    LET container == findContainer(connection)
    IN  IF container # Undefined
        THEN Range(collectNodesFromContainer(container))
        ELSE Range(collectGlobalNodes)

getScopeForConnection(connection) ==
    LET container == findContainer(connection)
    IN  IF elems[connection].connector = "~~>"
        THEN Range(collectNodesFromPools)
        ELSE IF container # Undefined
        THEN IF elems[container].type = "Lane"
             THEN LET pool == findPool(container)
                  IN  Range(collectNodesFromContainer(
                                IF pool # Undefined THEN pool ELSE container))
             ELSE Range(collectNodesFromContainer(container))
        ELSE Range(collectGlobalNodes)

-----------------------------------------------------------------------------
(* Validator: duplicate names and empty containers                          *)

\* The sentinel scope name of nodes outside every container.
GlobalScope == <<"g", "l", "o", "b", "a", "l">>

\* `${containerName}.${element.name}`
DottedPath(containerName, name) == containerName \o <<".">> \o name

\* checkNode that tests the name against the set of all names seen, not the
\* scope's own set.
checkNodeAllNames(st, node, containerName) ==
    LET scope == IF containerName # <<>> THEN containerName ELSE GlobalScope
        scopeNodes == IF scope \in DOMAIN st.containers THEN st.containers[scope] ELSE {}
        name == elems[node].name
    IN  [nodeNames  |-> st.nodeNames \cup {name},
         containers |-> (scope :> (scopeNodes \cup {name})) @@ st.containers,
         diags      |-> st.diags
                        \o (IF name \in st.nodeNames
                            THEN <<Diag("error", "Duplicate node name in scope.", node, "name")>>
                            ELSE <<>>)
                        \o (IF containerName # <<>> /\ name \in st.nodeNames
                            THEN <<Diag("warning", "Node name is used in multiple containers.",
                                        node, "name")>>
                            ELSE <<>>)]

\* checkNode: st is the closure state (nodeNames, containers) and the accepted
\* diagnostics; containerName is <<>> when the argument is absent.
checkNode(st, node, containerName) ==
    LET scope == IF containerName # <<>> THEN containerName ELSE GlobalScope
        scopeNodes == IF scope \in DOMAIN st.containers THEN st.containers[scope] ELSE {}
        name == elems[node].name
    IN  [nodeNames  |-> st.nodeNames \cup {name},
         containers |-> (scope :> (scopeNodes \cup {name})) @@ st.containers,
         diags      |-> st.diags
                        \o (IF name \in scopeNodes
                            THEN <<Diag("error", "Duplicate node name in scope.", node, "name")>>
                            ELSE <<>>)
                        \o (IF containerName # <<>> /\ name \in st.nodeNames
                            THEN <<Diag("warning", "Node name is used in multiple containers.",
                                        node, "name")>>
                            ELSE <<>>)]

RECURSIVE processElements(_, _, _)
processElements(st, elements, containerName) ==
    IF elements = <<>> THEN st
    ELSE LET element == Head(elements)
             st1 == IF isNode(element) THEN checkNode(st, element, containerName)
                    ELSE IF elems[element].type = "Pool"
                    THEN processElements(st, Children(element), elems[element].name)
                    ELSE IF elems[element].type = "Lane"
                    THEN processElements(st, Children(element),
                             IF containerName # <<>>
                             THEN DottedPath(containerName, elems[element].name)
                             ELSE elems[element].name)
                    ELSE st
         IN  processElements(st1, Tail(elements), containerName)

checkDuplicateNodeNames ==
    processElements([nodeNames |-> {}, containers |-> <<>>, diags |-> <<>>],
                    Children(Root), <<>>).diags

\* The empty pool reported as an error.
checkPoolElementsAsError(pool) ==
    IF Len(Children(pool)) = 0
    THEN <<Diag("error", "Pool is empty. Consider adding lanes or elements.", pool, "name")>>
    ELSE <<>>

checkPoolElements(pool) ==
    IF Len(Children(pool)) = 0
    THEN <<Diag("warning", "Pool is empty. Consider adding lanes or elements.", pool, "name")>>
    ELSE <<>>

checkLaneElements(lane) ==
    IF Len(Children(lane)) = 0
    THEN <<Diag("warning", "Lane is empty. Consider adding elements.", lane, "name")>>
    ELSE <<>>

-----------------------------------------------------------------------------
(* Generator: cli/generator.ts -- identifiers                               *)

\* Strings are sequences of characters.
StrProcess == <<"P", "r", "o", "c", "e", "s", "s">>
StrProcessU == <<"P", "r", "o", "c", "e", "s", "s", "_">>
StrParticipantU == <<"P", "a", "r", "t", "i", "c", "i", "p", "a", "n", "t", "_">>
StrCollaboration == <<"C", "o", "l", "l", "a", "b", "o", "r", "a", "t", "i", "o", "n">>
StrBPMNDiagram == <<"B", "P", "M", "N", "D", "i", "a", "g", "r", "a", "m">>
StrBPMNPlane == <<"B", "P", "M", "N", "P", "l", "a", "n", "e">>
StrFlow == <<"F", "l", "o", "w">>
StrAssociation == <<"A", "s", "s", "o", "c", "i", "a", "t", "i", "o", "n">>
StrMessageFlow == <<"M", "e", "s", "s", "a", "g", "e", "F", "l", "o", "w">>
StrDi == <<"_", "d", "i">>

\* The identifier of the definitions element, a literal of the template.
StrDefinitions1 == <<"D", "e", "f", "i", "n", "i", "t", "i", "o", "n", "s", "_", "1">>

\* [a-zA-Z0-9_]
IdChars ==
    {"a", "b", "c", "d", "e", "f", "g", "h", "i", "j", "k", "l", "m", "n", "o", "p", "q",
     "r", "s", "t", "u", "v", "w", "x", "y", "z",
     "A", "B", "C", "D", "E", "F", "G", "H", "I", "J", "K", "L", "M", "N", "O", "P", "Q",
     "R", "S", "T", "U", "V", "W", "X", "Y", "Z",
     "0", "1", "2", "3", "4", "5", "6", "7", "8", "9", "_"}

DigitChars == <<"0", "1", "2", "3", "4", "5", "6", "7", "8", "9">>

\* `${count}`
RECURSIVE CountString(_)
CountString(count) ==
    IF count < 10 THEN <<DigitChars[count + 1]>>
    ELSE CountString(count \div 10) \o <<DigitChars[(count % 10) + 1]>>

sanitizeId(value) ==
    [i \in DOMAIN value |-> IF value[i] \in IdChars THEN value[i] ELSE "_"]

\* The generator's fields during an invocation, with the record of the
\* identifier lookups made (calls) and whether the invocation has thrown.
Running(fields) ==
    [idCounter |-> fields.idCounter, nameCounts |-> fields.nameCounts,
     nodeIdMap |-> fields.nodeIdMap, connectionIdMap |-> fields.connectionIdMap,
     calls |-> <<>>, threw |-> FALSE]

Fields(g) ==
    [idCounter |-> g.idCounter, nameCounts |-> g.nameCounts,
     nodeIdMap |-> g.nodeIdMap, connectionIdMap |-> g.connectionIdMap]

Call(fn, key, id) == [fn |-> fn, key |-> key, id |-> id]

resetIdsKeepCounts(g) ==
    [g EXCEPT !.idCounter = 0, !.nodeIdMap = <<>>, !.connectionIdMap = <<>>]

resetIds(g) ==
    [g EXCEPT !.idCounter = 0, !.nameCounts = <<>>, !.nodeIdMap = <<>>,
              !.connectionIdMap = <<>>]

nextId(g, baseName) ==
    IF g.threw THEN [g |-> g, id |-> <<>>]
    ELSE
    LET safeBase == sanitizeId(baseName)
        count == (IF safeBase \in DOMAIN g.nameCounts THEN g.nameCounts[safeBase] ELSE 0) + 1
        id == safeBase \o <<"_">> \o CountString(count)
    IN  [g  |-> [g EXCEPT !.nameCounts = (safeBase :> count) @@ @,
                          !.calls = Append(@, Call("nextId", safeBase, id))],
         id |-> id]

\* nodeId without the memo table: every lookup draws a new identifier.
nodeIdNoMemo(g, node) ==
    IF g.threw THEN [g |-> g, id |-> <<>>]
    ELSE IF node = Undefined THEN [g |-> [g EXCEPT !.threw = TRUE], id |-> <<>>]
    ELSE LET r == nextId(g, elems[node].name)
         IN  [g  |-> [r.g EXCEPT !.calls = Append(@, Call("nodeId", node, r.id))],
              id |-> r.id]

\* node = Undefined (an unresolved reference): the table has no entry and
\* reading node.name throws.
nodeId(g, node) ==
    IF g.threw THEN [g |-> g, id |-> <<>>]
    ELSE IF node \in DOMAIN g.nodeIdMap
    THEN [g  |-> [g EXCEPT !.calls = Append(@, Call("nodeId", node, g.nodeIdMap[node]))],
          id |-> g.nodeIdMap[node]]
    ELSE IF node = Undefined THEN [g |-> [g EXCEPT !.threw = TRUE], id |-> <<>>]
    ELSE LET r == nextId(g, elems[node].name)
         IN  [g  |-> [r.g EXCEPT !.nodeIdMap = (node :> r.id) @@ @,
                                 !.calls = Append(@, Call("nodeId", node, r.id))],
              id |-> r.id]

connectionId(g, connection, prefix) ==
    IF g.threw THEN [g |-> g, id |-> <<>>]
    ELSE IF connection \in DOMAIN g.connectionIdMap
    THEN [g  |-> [g EXCEPT !.calls = Append(@, Call("connectionId", connection,
                                                   g.connectionIdMap[connection]))],
          id |-> g.connectionIdMap[connection]]
    ELSE LET r == nextId(g, prefix)
         IN  [g  |-> [r.g EXCEPT !.connectionIdMap = (connection :> r.id) @@ @,
                                 !.calls = Append(@, Call("connectionId", connection, r.id))],
              id |-> r.id]

-----------------------------------------------------------------------------
(* Generator: one process group                                             *)

isMessageFlow(connection) == elems[connection].connector = "~~>"

isAssociation(connection) ==
    elems[connection].connector = "--" \/ elems[connection].connector = ".."

NoFlowInfo == [incoming |-> <<>>, outgoing |-> <<>>]

\* flowInfo.get(node) ?? empty lists
FlowInfoOf(map, node) == IF node \in DOMAIN map THEN map[node] ELSE NoFlowInfo

RECURSIVE collectFlowInfoFrom(_, _, _)
collectFlowInfoFrom(g, map, connections) ==
    IF connections = <<>> THEN [g |-> g, map |-> map]
    ELSE LET connection == Head(connections)
         IN  IF isMessageFlow(connection) \/ isAssociation(connection)
             THEN collectFlowInfoFrom(g, map, Tail(connections))
             ELSE LET source == elems[connection].source
                      target == elems[connection].target
                      incoming(r, m1) ==
                          collectFlowInfoFrom(r.g,
                              (target :> [FlowInfoOf(m1, target) EXCEPT
                                             !.incoming = Append(@, r.id)]) @@ m1,
                              Tail(connections))
                      outgoing(r) ==
                          incoming(r, (source :> [FlowInfoOf(map, source) EXCEPT
                                                     !.outgoing = Append(@, r.id)]) @@ map)
                  IN  outgoing(connectionId(g, connection, StrFlow))

collectFlowInfo(g, connections) == collectFlowInfoFrom(g, <<>>, connections)

\* The form chosen by the incoming entries alone.
renderFlowNodeByIncoming(tag, id, name, incoming, outgoing) ==
    [tag |-> tag, id |-> id, name |-> name, incoming |-> incoming, outgoing |-> outgoing,
     form |-> IF Len(incoming) = 0 THEN "short" ELSE "long"]

renderFlowNode(tag, id, name, incoming, outgoing) ==
    [tag |-> tag, id |-> id, name |-> name, incoming |-> incoming, outgoing |-> outgoing,
     form |-> IF Len(incoming) = 0 /\ Len(outgoing) = 0 THEN "short" ELSE "long"]

\* event.eventType || 'intermediate'
EventTag(eventType) ==
    IF eventType = "start" THEN "startEvent"
    ELSE IF eventType = "end" THEN "endEvent"
    ELSE "intermediateThrowEvent"

\* task.taskType || 'task'
TaskTag(taskType) ==
    IF taskType = "user" THEN "userTask"
    ELSE IF taskType = "service" THEN "serviceTask"
    ELSE IF taskType = "manual" THEN "manualTask"
    ELSE IF taskType = "script" THEN "scriptTask"
    ELSE IF taskType = "send" THEN "sendTask"
    ELSE IF taskType = "receive" THEN "receiveTask"
    ELSE IF taskType = "business-rule" THEN "businessRuleTask"
    ELSE "task"

\* gateway.gatewayType || 'exclusive'
GatewayTag(gatewayType) ==
    IF gatewayType = "parallel" THEN "parallelGateway"
    ELSE IF gatewayType = "inclusive" THEN "inclusiveGateway"
    ELSE IF gatewayType = "event-based" THEN "eventBasedGateway"
    ELSE IF gatewayType = "complex" THEN "complexGateway"
    ELSE "exclusiveGateway"

generateNode(g, node, flowInfo) ==
    LET tag == IF elems[node].type = "Event" THEN EventTag(elems[node].subtype)
               ELSE IF elems[node].type = "Task" THEN TaskTag(elems[node].subtype)
               ELSE GatewayTag(elems[node].subtype)
        rendered(r) ==
            [g   |-> r.g,
             xml |-> renderFlowNode(tag, r.id, elems[node].name,
                                    flowInfo.incoming, flowInfo.outgoing)]
    IN  rendered(nodeId(g, node))

RECURSIVE generateNodes(_, _, _)
generateNodes(g, nodes, map) ==
    IF nodes = <<>> THEN [g |-> g, elements |-> <<>>]
    ELSE LET joined(r, rest) == [g |-> rest.g, elements |-> <<r.xml>> \o rest.elements]
             first(r) == joined(r, generateNodes(r.g, Tail(nodes), map))
         IN  first(generateNode(g, Head(nodes), FlowInfoOf(map, Head(nodes))))

\* generateSequenceFlow, generateAssociation, generateMessageFlow: the flow's
\* identifier first, then the source's and the target's.
generateFlow(g, connection, tag, prefix) ==
    LET rendered(r1, r2, r3) ==
            [g   |-> r3.g,
             xml |-> [tag |-> tag, id |-> r1.id, sourceRef |-> r2.id, targetRef |-> r3.id,
                      name |-> elems[connection].label]]
        sourceRef(r1, r2) == rendered(r1, r2, nodeId(r2.g, elems[connection].target))
        id(r1) == sourceRef(r1, nodeId(r1.g, elems[connection].source))
    IN  id(connectionId(g, connection, prefix))

generateSequenceFlow(g, connection) == generateFlow(g, connection, "sequenceFlow", StrFlow)

generateAssociation(g, connection) ==
    generateFlow(g, connection, "association", StrAssociation)

generateMessageFlow(g, connection) ==
    generateFlow(g, connection, "messageFlow", StrMessageFlow)

EmptyContent ==
    [elements |-> <<>>, flows |-> <<>>, messageFlows |-> <<>>, sequenceFlows |-> <<>>,
     associationFlows |-> <<>>, messageFlowConnections |-> <<>>]

RECURSIVE generateConnections(_, _, _)
generateConnections(g, content, connections) ==
    IF connections = <<>> THEN [g |-> g, content |-> content]
    ELSE LET connection == Head(connections)
         IN  IF isMessageFlow(connection)
             THEN LET push(r) ==
                          generateConnections(r.g,
                              [content EXCEPT !.messageFlows = Append(@, r.xml),
                                              !.messageFlowConnections = Append(@, connection)],
                              Tail(connections))
                  IN  push(generateMessageFlow(g, connection))
             ELSE IF isAssociation(connection)
             THEN LET push(r) ==
                          generateConnections(r.g,
                              [content EXCEPT !.associationFlows = Append(@, connection),
                                              !.flows = Append(@, r.xml)],
                              Tail(connections))
                  IN  push(generateAssociation(g, connection))
             ELSE LET push(r) ==
                          generateConnections(r.g,
                              [content EXCEPT !.sequenceFlows = Append(@, connection),
                                              !.flows = Append(@, r.xml)],
                              Tail(connections))
                  IN  push(generateSequenceFlow(g, connection))

generateProcessContent(g, nodes, connections) ==
    LET flows(made) ==
            generateConnections(made.g, [EmptyContent EXCEPT !.elements = made.elements],
                                connections)
        elements(info) == flows(generateNodes(info.g, nodes, info.map))
    IN  elements(collectFlowInfo(g, connections))

renderProcess(processId, content) ==
    [id |-> processId, elements |-> content.elements, flows |-> content.flows]

RECURSIVE collectContainerNodes(_)
collectContainerNodes(elements) ==
    IF elements = <<>> THEN <<>>
    ELSE LET element == Head(elements)
         IN  (IF isNode(element) THEN <<element>>
              ELSE IF elems[element].type = "Lane"
              THEN collectContainerNodes(Children(element))
              ELSE <<>>)
             \o collectContainerNodes(Tail(elements))

RECURSIVE collectContainerConnections(_)
collectContainerConnections(elements) ==
    IF elements = <<>> THEN <<>>
    ELSE LET element == Head(elements)
         IN  (IF elems[element].type = "Connection" THEN <<element>>
              ELSE IF elems[element].type = "Lane"
              THEN collectContainerConnections(Children(element))
              ELSE <<>>)
             \o collectContainerConnections(Tail(elements))

collectContainerElements(container) ==
    [nodes       |-> collectContainerNodes(Children(container)),
     connections |-> collectContainerConnections(Children(container))]

-----------------------------------------------------------------------------
(* Generator: diagram                                                       *)

startX == 100
spacingX == 180
lanePadding == 40
processSpacing == 220
firstRowY == 80

EventSize == 36
GatewaySize == 50
TaskWidth == 100
TaskHeight == 80

\* Tasks drawn twice as wide.
nodeSizeWideTask(node) ==
    IF elems[node].type = "Event" THEN [width |-> EventSize, height |-> EventSize]
    ELSE IF elems[node].type = "Gateway" THEN [width |-> GatewaySize, height |-> GatewaySize]
    ELSE [width |-> TaskWidth * 2, height |-> TaskHeight]

nodeSize(node) ==
    IF elems[node].type = "Event" THEN [width |-> EventSize, height |-> EventSize]
    ELSE IF elems[node].type = "Gateway" THEN [width |-> GatewaySize, height |-> GatewaySize]
    ELSE [width |-> TaskWidth, height |-> TaskHeight]

RECURSIVE layoutNodesFrom(_, _, _, _)
layoutNodesFrom(nodes, index, baseY, boundsMap) ==
    IF nodes = <<>> THEN boundsMap
    ELSE LET size == nodeSize(Head(nodes))
         IN  layoutNodesFrom(Tail(nodes), index + 1, baseY,
                 (Head(nodes) :> [x |-> startX + index * spacingX, y |-> baseY,
                                  width |-> size.width, height |-> size.height])
                 @@ boundsMap)

\* The row counted from one.
layoutNodesFromOne(nodes, baseY, boundsMap) == layoutNodesFrom(nodes, 1, baseY, boundsMap)

layoutNodes(nodes, baseY, boundsMap) == layoutNodesFrom(nodes, 0, baseY, boundsMap)

MinOf(S) == CHOOSE v \in S : \A w \in S : v <= w
MaxOf(S) == CHOOSE v \in S : \A w \in S : v >= w

\* The padding added once to each extent instead of on each side.
computeBoundsForNodesPaddedOnce(nodes, boundsMap, padding) ==
    LET laidOut == {n \in Range(nodes) : n \in DOMAIN boundsMap}
    IN  IF Len(nodes) = 0 \/ laidOut = {} THEN <<>>
        ELSE LET minX == MinOf({boundsMap[n].x : n \in laidOut})
                 minY == MinOf({boundsMap[n].y : n \in laidOut})
                 maxX == MaxOf({boundsMap[n].x + boundsMap[n].width : n \in laidOut})
                 maxY == MaxOf({boundsMap[n].y + boundsMap[n].height : n \in laidOut})
             IN  <<[x |-> minX - padding, y |-> minY - padding,
                    width |-> (maxX - minX) + padding,
                    height |-> (maxY - minY) + padding]>>

\* The result is <<>> when undefined, else <<bounds>>.
computeBoundsForNodes(nodes, boundsMap, padding) ==
    LET laidOut == {n \in Range(nodes) : n \in DOMAIN boundsMap}
    IN  IF Len(nodes) = 0 \/ laidOut = {} THEN <<>>
        ELSE LET minX == MinOf({boundsMap[n].x : n \in laidOut})
                 minY == MinOf({boundsMap[n].y : n \in laidOut})
                 maxX == MaxOf({boundsMap[n].x + boundsMap[n].width : n \in laidOut})
                 maxY == MaxOf({boundsMap[n].y + boundsMap[n].height : n \in laidOut})
             IN  <<[x |-> minX - padding, y |-> minY - padding,
                    width |-> (maxX - minX) + padding * 2,
                    height |-> (maxY - minY) + padding * 2]>>

\* Math.round(v / 2) for an integer v.
RoundHalf(v) == (v + 1) \div 2

\* The corner of the box instead of its center.
centerPointAtCorner(boundsMap, node) ==
    IF node \notin DOMAIN boundsMap THEN [x |-> 0, y |-> 0]
    ELSE [x |-> boundsMap[node].x, y |-> boundsMap[node].y]

centerPoint(boundsMap, node) ==
    IF node \notin DOMAIN boundsMap THEN [x |-> 0, y |-> 0]
    ELSE [x |-> RoundHalf(2 * boundsMap[node].x + boundsMap[node].width),
          y |-> RoundHalf(2 * boundsMap[node].y + boundsMap[node].height)]

renderShape(nodeIdentifier, bounds) ==
    [id |-> nodeIdentifier \o StrDi, bpmnElement |-> nodeIdentifier, bounds |-> bounds,
     isHorizontal |-> FALSE]

renderParticipantShape(participantId, bounds) ==
    [id |-> participantId \o StrDi, bpmnElement |-> participantId, bounds |-> bounds,
     isHorizontal |-> TRUE]

\* The edge rendered without the boxes laid out for the nodes.
renderEdgeBeforeLayout(g, connection, boundsMap) ==
    LET prefix == IF isAssociation(connection) THEN StrAssociation ELSE StrFlow
        rendered(r1, r2) ==
            [g   |-> r2.g,
             xml |-> [id |-> r1.id \o StrDi, bpmnElement |-> r2.id,
                      waypoints |-> <<centerPoint(<<>>, elems[connection].source),
                                      centerPoint(<<>>, elems[connection].target)>>]]
        edgeId(r1) == rendered(r1, connectionId(r1.g, connection, prefix))
    IN  edgeId(connectionId(g, connection, prefix))

renderEdge(g, connection, boundsMap) ==
    LET prefix == IF isAssociation(connection) THEN StrAssociation ELSE StrFlow
        rendered(r1, r2) ==
            [g   |-> r2.g,
             xml |-> [id |-> r1.id \o StrDi, bpmnElement |-> r2.id,
                      waypoints |-> <<centerPoint(boundsMap, elems[connection].source),
                                      centerPoint(boundsMap, elems[connection].target)>>]]
        edgeId(r1) == rendered(r1, connectionId(r1.g, connection, prefix))
    IN  edgeId(connectionId(g, connection, prefix))

renderMessageEdge(g, connection, boundsMap) ==
    LET rendered(r) ==
            [g   |-> r.g,
             xml |-> [id |-> r.id \o StrDi, bpmnElement |-> r.id,
                      waypoints |-> <<centerPoint(boundsMap, elems[connection].source),
                                      centerPoint(boundsMap, elems[connection].target)>>]]
    IN  rendered(connectionId(g, connection, StrMessageFlow))

\* participants.find(participant => participant.pool === pool): <<>> or <<participant>>
FindParticipant(participants, pool) ==
    LET found == SelectSeq(participants, LAMBDA participant : participant.pool = pool)
    IN  IF found = <<>> THEN <<>> ELSE <<Head(found)>>

\* First loop of generateDiagram: lay out every group, bound every pool.
RECURSIVE layoutSpecs(_, _, _, _, _)
layoutSpecs(processSpecs, processIndex, participants, nodeBounds, participantBounds) ==
    IF processSpecs = <<>>
    THEN [nodeBounds |-> nodeBounds, participantBounds |-> participantBounds]
    ELSE LET spec == Head(processSpecs)
             baseY == firstRowY + processIndex * processSpacing
             laid == layoutNodes(spec.nodes, baseY, nodeBounds)
             bounds == IF spec.pool # Undefined
                       THEN computeBoundsForNodes(spec.nodes, laid, lanePadding)
                       ELSE <<>>
             participantSpec == FindParticipant(participants, spec.pool)
             pb == IF bounds # <<>> /\ participantSpec # <<>>
                   THEN (participantSpec[1].id :> bounds[1]) @@ participantBounds
                   ELSE participantBounds
         IN  layoutSpecs(Tail(processSpecs), processIndex + 1, participants, laid, pb)

RECURSIVE renderNodeShapes(_, _, _)
renderNodeShapes(g, nodes, nodeBounds) ==
    IF nodes = <<>> THEN [g |-> g, xml |-> <<>>]
    ELSE IF Head(nodes) \notin DOMAIN nodeBounds
    THEN renderNodeShapes(g, Tail(nodes), nodeBounds)
    ELSE LET joined(r, rest) ==
                 [g |-> rest.g,
                  xml |-> <<renderShape(r.id, nodeBounds[Head(nodes)])>> \o rest.xml]
             first(r) == joined(r, renderNodeShapes(r.g, Tail(nodes), nodeBounds))
         IN  first(nodeId(g, Head(nodes)))

RECURSIVE renderEdges(_, _, _)
renderEdges(g, connections, nodeBounds) ==
    IF connections = <<>> THEN [g |-> g, xml |-> <<>>]
    ELSE LET joined(r, rest) == [g |-> rest.g, xml |-> <<r.xml>> \o rest.xml]
             first(r) == joined(r, renderEdges(r.g, Tail(connections), nodeBounds))
         IN  first(renderEdge(g, Head(connections), nodeBounds))

RECURSIVE renderMessageEdges(_, _, _)
renderMessageEdges(g, connections, nodeBounds) ==
    IF connections = <<>> THEN [g |-> g, xml |-> <<>>]
    ELSE LET joined(r, rest) == [g |-> rest.g, xml |-> <<r.xml>> \o rest.xml]
             first(r) == joined(r, renderMessageEdges(r.g, Tail(connections), nodeBounds))
         IN  first(renderMessageEdge(g, Head(connections), nodeBounds))

\* Second loop of generateDiagram: per group its node shapes, then the edges
\* of its sequence flows, then those of its associations.
RECURSIVE renderSpecs(_, _, _)
renderSpecs(g, processSpecs, nodeBounds) ==
    IF processSpecs = <<>> THEN [g |-> g, shapes |-> <<>>, edges |-> <<>>]
    ELSE LET spec == Head(processSpecs)
             joined(r1, r2, r3, rest) ==
                 [g |-> rest.g, shapes |-> r1.xml \o rest.shapes,
                  edges |-> r2.xml \o r3.xml \o rest.edges]
             associations(r1, r2, r3) ==
                 joined(r1, r2, r3, renderSpecs(r3.g, Tail(processSpecs), nodeBounds))
             sequences(r1, r2) ==
                 associations(r1, r2,
                              renderEdges(r2.g, spec.content.associationFlows, nodeBounds))
             shapes(r1) ==
                 sequences(r1, renderEdges(r1.g, spec.content.sequenceFlows, nodeBounds))
         IN  shapes(renderNodeShapes(g, spec.nodes, nodeBounds))

RECURSIVE renderParticipantShapes(_, _)
renderParticipantShapes(participants, participantBounds) ==
    IF participants = <<>> THEN <<>>
    ELSE (IF Head(participants).id \in DOMAIN participantBounds
          THEN <<renderParticipantShape(Head(participants).id,
                                        participantBounds[Head(participants).id])>>
          ELSE <<>>)
         \o renderParticipantShapes(Tail(participants), participantBounds)

\* collaborationId is <<>> when there is no collaboration, else <<id>>.
\* The diagram is <<>> when the output has no diagram section, else <<diagram>>.
generateDiagram(g, processSpecs, participants, messageFlowConnections, collaborationId) ==
    LET planeTarget == IF collaborationId # <<>> THEN collaborationId
                       ELSE IF processSpecs # <<>> THEN <<processSpecs[1].id>>
                       ELSE <<>>
        rendered(d, p, shapes, edges) ==
            [g |-> p.g,
             diagram |-> <<[id |-> d.id, planeId |-> p.id,
                            bpmnElement |-> planeTarget[1],
                            shapes |-> shapes, edges |-> edges]>>]
        diagramId(d, shapes, edges) ==
            rendered(d, nextId(d.g, StrBPMNPlane), shapes, edges)
        section(g1, shapes, edges) ==
            IF (Len(shapes) = 0 /\ Len(edges) = 0) \/ planeTarget = <<>>
            THEN [g |-> g1, diagram |-> <<>>]
            ELSE diagramId(nextId(g1, StrBPMNDiagram), shapes, edges)
        messageEdges(drawn, pshapes, medges) ==
            section(medges.g, drawn.shapes \o pshapes, drawn.edges \o medges.xml)
        groups(laid, drawn) ==
            messageEdges(drawn,
                         renderParticipantShapes(participants, laid.participantBounds),
                         renderMessageEdges(drawn.g, messageFlowConnections,
                                            laid.nodeBounds))
        layout(laid) == groups(laid, renderSpecs(g, processSpecs, laid.nodeBounds))
    IN  layout(layoutSpecs(processSpecs, 0, participants, <<>>, <<>>))

-----------------------------------------------------------------------------
(* Generator: generateXML                                                   *)

\* A participant that refers to itself instead of to the pool's process.
renderParticipantSelfRef(g, pool, processId) ==
    LET r == nextId(g, StrParticipantU \o elems[pool].name)
    IN  [g |-> r.g,
         participant |-> [id |-> r.id, name |-> elems[pool].name,
                          processRef |-> r.id, pool |-> pool]]

renderParticipant(g, pool, processId) ==
    LET r == nextId(g, StrParticipantU \o elems[pool].name)
    IN  [g |-> r.g,
         participant |-> [id |-> r.id, name |-> elems[pool].name,
                          processRef |-> processId, pool |-> pool]]

\* A collaboration rendered from the message flows alone.
renderCollaborationNoParticipants(g, participants, messageFlows) ==
    LET r == nextId(g, StrCollaboration)
    IN  [g |-> r.g,
         collaboration |-> [id |-> r.id, participants |-> <<>>,
                            messageFlows |-> messageFlows]]

renderCollaboration(g, participants, messageFlows) ==
    LET r == nextId(g, StrCollaboration)
    IN  [g |-> r.g,
         collaboration |-> [id |-> r.id, participants |-> participants,
                            messageFlows |-> messageFlows]]

NoGroups ==
    [processes |-> <<>>, participants |-> <<>>, messageFlows |-> <<>>,
     processSpecs |-> <<>>, messageFlowConnections |-> <<>>]

\* The global process, compiled from the root's own nodes and connections.
compileGlobal(g, acc, globalNodes, globalConnections) ==
    LET pushed(made, r) ==
            [g   |-> r.g,
             acc |-> [acc EXCEPT
                        !.processes = Append(@, renderProcess(r.id, made.content)),
                        !.messageFlows = @ \o made.content.messageFlows,
                        !.messageFlowConnections = @ \o made.content.messageFlowConnections,
                        !.processSpecs = Append(@, [id |-> r.id, nodes |-> globalNodes,
                                                    content |-> made.content,
                                                    pool |-> Undefined])]]
        content(made) == pushed(made, nextId(made.g, StrProcess))
    IN  content(generateProcessContent(g, globalNodes, globalConnections))

\* for (const pool of pools) { ... }
RECURSIVE compilePools(_, _, _)
compilePools(g, acc, pools) ==
    IF pools = <<>> THEN [g |-> g, acc |-> acc]
    ELSE LET pool == Head(pools)
             pushed(collected, made, r, p) ==
                 compilePools(p.g,
                     [acc EXCEPT
                        !.processes = Append(@, renderProcess(r.id, made.content)),
                        !.participants = Append(@, p.participant),
                        !.messageFlows = @ \o made.content.messageFlows,
                        !.messageFlowConnections =
                            @ \o made.content.messageFlowConnections,
                        !.processSpecs = Append(@, [id |-> r.id, nodes |-> collected.nodes,
                                                    content |-> made.content,
                                                    pool |-> pool])],
                     Tail(pools))
             processId(collected, made, r) ==
                 pushed(collected, made, r, renderParticipant(r.g, pool, r.id))
             content(collected, made) ==
                 processId(collected, made, nextId(made.g, StrProcessU \o elems[pool].name))
             elements(collected) ==
                 content(collected,
                         generateProcessContent(g, collected.nodes, collected.connections))
         IN  elements(collectContainerElements(pool))

\* The result: the generator's fields afterwards (g) and what the call
\* returned (out), or that it threw.
generateXML(fields) ==
    LET g0 == resetIds(Running(fields))
        globalNodes == SelectSeq(Children(Root), isNode)
        globalConnections == SelectSeq(Children(Root),
                                       LAMBDA e : elems[e].type = "Connection")
        pools == SelectSeq(Children(Root), LAMBDA e : elems[e].type = "Pool")
        hasGlobalFlowContent ==
            Len(globalNodes) > 0
            \/ \E k \in DOMAIN globalConnections : ~isMessageFlow(globalConnections[k])
        returned(acc, collaboration, diag) ==
            [g   |-> diag.g,
             out |-> IF diag.g.threw THEN [status |-> "threw"]
                     ELSE [status |-> "ok", definitionsId |-> StrDefinitions1,
                           processes |-> acc.processes,
                           collaboration |-> collaboration,
                           diagram |-> diag.diagram]]
        diagram(g1, acc, collaboration) ==
            returned(acc, collaboration,
                     generateDiagram(g1, acc.processSpecs, acc.participants,
                                     acc.messageFlowConnections,
                                     IF collaboration = <<>> THEN <<>>
                                     ELSE <<collaboration[1].id>>))
        collab(acc, r) == diagram(r.g, acc, <<r.collaboration>>)
        groups(all) ==
            IF Len(all.acc.participants) > 0 \/ Len(all.acc.messageFlows) > 0
            THEN collab(all.acc, renderCollaboration(all.g, all.acc.participants,
                                                     all.acc.messageFlows))
            ELSE diagram(all.g, all.acc, <<>>)
        global(first) == groups(compilePools(first.g, first.acc, pools))
    IN  global(IF hasGlobalFlowContent \/ Len(pools) = 0
               THEN compileGlobal(g0, NoGroups, globalNodes, globalConnections)
               ELSE [g |-> g0, acc |-> NoGroups])

-----------------------------------------------------------------------------
(* The state after construction, the parser's and the linker's steps.       *)

\* new BPMNXMLGenerator(): the field initializers.
FreshGenerator ==
    [idCounter |-> 0, nameCounts |-> <<>>, nodeIdMap |-> <<>>, connectionIdMap |-> <<>>]

NoOutput == [status |-> "none"]

Init ==
    /\ elems = <<>>
    /\ pc = "parse"
    /\ nlinked = 0
    /\ scopes = <<>>
    /\ diagnostics = <<>>
    /\ gen = FreshGenerator
    /\ calls = <<>>
    /\ out = NoOutput
    /\ reused = "fresh"

\* Subtype annotations the grammar admits for a node type ("" : none given).
SubtypesOf(type) ==
    IF type = "Event" THEN {"", "start", "end", "intermediate"}
    ELSE IF type = "Task" THEN {"", "user", "service", "manual", "script", "send",
                                "receive", "business-rule"}
    ELSE {"", "exclusive", "parallel", "inclusive", "event-based", "complex"}

RECURSIVE SelfAndAbove(_)
SelfAndAbove(current) ==
    IF current = Root THEN {Root} ELSE {current} \cup SelfAndAbove(elems[current].parent)

\* The containers still open after the last element of the document so far:
\* the next element is declared in one of them (the braces in between close).
OpenContainers ==
    IF N = 0 THEN {Root}
    ELSE IF elems[N].type \in {"Pool", "Lane"} THEN SelfAndAbove(N)
    ELSE SelfAndAbove(elems[N].parent)

ParseUnchanged == UNCHANGED <<pc, nlinked, scopes, diagnostics, gen, calls, out, reused>>

\* An Event, Task or Gateway declared at the root, in a pool or in a lane.
AddNode(P) ==
    /\ pc = "parse"
    /\ N < P.maxElems
    /\ \E container \in OpenContainers, type \in P.types, name \in P.names,
          subtype \in P.subtypes :
          /\ subtype \in SubtypesOf(type)
          /\ elems' = Append(elems, Elem(type, name, container, subtype, "", ""))
    /\ ParseUnchanged

\* A connection declared at the root, in a pool or in a lane; its references
\* are not yet linked.
AddConnection(P) ==
    /\ pc = "parse"
    /\ N < P.maxElems
    /\ Cardinality(ConnIds) < P.maxConns
    /\ \E container \in OpenContainers, connector \in P.connectors, label \in P.labels :
          elems' = Append(elems, Elem("Connection", <<>>, container, "", connector, label))
    /\ ParseUnchanged

\* pool <name> { ... } : pools are declared at the root only.
AddPool(P) ==
    /\ pc = "parse"
    /\ N < P.maxElems
    /\ \E name \in P.poolNames :
          elems' = Append(elems, Elem("Pool", name, Root, "", "", ""))
    /\ ParseUnchanged

\* lane <name> { ... } : lanes are declared inside a pool or a lane.
AddLane(P) ==
    /\ pc = "parse"
    /\ N < P.maxElems
    /\ \E container \in OpenContainers \ {Root}, name \in P.laneNames :
          elems' = Append(elems, Elem("Lane", name, container, "", "", ""))
    /\ ParseUnchanged

\* References in document order: connection k's source, then its target.
ConnSeq == SelectSeq(Ids, LAMBDA i : elems[i].type = "Connection")
NumRefs == 2 * Len(ConnSeq)

\* End of input: the document is parsed, linking begins.
EndParse ==
    /\ pc = "parse"
    /\ pc' = IF nlinked = NumRefs THEN "linked" ELSE "link"
    /\ UNCHANGED <<elems, nlinked, scopes, diagnostics, gen, calls, out, reused>>

\* The linker resolves the next reference: it asks the scope provider for the
\* candidates (getScope -> getScopeForConnection) and binds the reference to a
\* node or leaves it unresolved.  With inScope the node is one of the
\* candidates, as the linker binds it; without, any node of the tree, as a
\* caller that builds the tree itself may bind it.
LinkReference(inScope) ==
    /\ pc = "link"
    /\ nlinked < NumRefs
    /\ LET connection == ConnSeq[(nlinked + 2) \div 2]
           property == IF nlinked % 2 = 0 THEN "source" ELSE "target"
           scope == getScopeForConnection(connection)
       IN  /\ scopes' = (connection :> scope) @@ scopes
           /\ \E ref \in (IF inScope THEN scope ELSE NodeIds) \cup {Undefined} :
                 elems' = IF property = "source"
                          THEN [elems EXCEPT ![connection].source = ref]
                          ELSE [elems EXCEPT ![connection].target = ref]
    /\ nlinked' = nlinked + 1
    /\ pc' = IF nlinked + 1 = NumRefs THEN "linked" ELSE "link"
    /\ UNCHANGED <<diagnostics, gen, calls, out, reused>>

-----------------------------------------------------------------------------
(* The validation pass: the registered checks, element by element.          *)

\* The checks registered for an element's type (registerValidationChecks).
checksOf(element) ==
    IF elems[element].type = "Connection" THEN checkConnection(element)
    ELSE IF elems[element].type = "Pool" THEN checkPoolElements(element)
    ELSE IF elems[element].type = "Lane" THEN checkLaneElements(element)
    ELSE <<>>

RECURSIVE checksFrom(_)
checksFrom(element) ==
    IF element > N THEN <<>> ELSE checksOf(element) \o checksFrom(element + 1)

\* The BPMN root first, then every element in document order.
validateDocument == checkDuplicateNodeNames \o checksFrom(1)

Validate ==
    /\ pc = "linked"
    /\ diagnostics' = validateDocument
    /\ pc' = "validated"
    /\ UNCHANGED <<elems, nlinked, scopes, gen, calls, out, reused>>

-----------------------------------------------------------------------------
(* Generator invocations on the linked tree.                                *)

\* generator.generateXML(model) on the instance, for the first time or again.
GenerateXML ==
    /\ pc \in {"linked", "generated"}
    /\ \E r \in {generateXML(gen)} :
           /\ gen' = Fields(r.g)
           /\ calls' = r.g.calls
           /\ out' = r.out
    /\ reused' = IF pc = "generated" /\ reused = "fresh" THEN "same" ELSE reused
    /\ pc' = "generated"
    /\ UNCHANGED <<elems, nlinked, scopes, diagnostics>>

\* The document is extended and built again; the caller keeps its generator
\* instance, which the next invocation finds as the last one left it.
EditDocument ==
    /\ pc = "generated"
    /\ pc' = "parse"
    /\ reused' = "other"
    /\ scopes' = <<>>
    /\ UNCHANGED <<elems, nlinked, diagnostics, gen, calls, out>>

\* generator.generateXML(model) by a caller that validated the document and
\* compiles it whatever the diagnostics are.
CompileValidated ==
    /\ pc = "validated"
    /\ \E r \in {generateXML(FreshGenerator)} :
           /\ gen' = Fields(r.g)
           /\ calls' = r.g.calls
           /\ out' = r.out
    /\ pc' = "compiled"
    /\ UNCHANGED <<elems, nlinked, scopes, diagnostics, reused>>

-----------------------------------------------------------------------------
(* The command line driver: cli main.                                       *)

\* Every diagnostic taken for an error, the warnings included.
ErrorsOfAnySeverity == diagnostics

Errors == SelectSeq(diagnostics, LAMBDA diag : diag.severity = "error")

\* errors.length > 0: the errors are printed and the process exits with 1.
MainReportErrors ==
    /\ pc = "validated"
    /\ Len(Errors) > 0
    /\ pc' = "exit"
    /\ UNCHANGED <<elems, nlinked, scopes, diagnostics, gen, calls, out, reused>>

\* new BPMNXMLGenerator().generateXML(model), then the document is written;
\* an exception ends the process with 1 and nothing written.
MainGenerate ==
    /\ pc = "validated"
    /\ Len(Errors) = 0
    /\ \E r \in {generateXML(FreshGenerator)} :
           /\ gen' = Fields(r.g)
           /\ calls' = r.g.calls
           /\ out' = r.out
           /\ pc' = IF r.out.status = "ok" THEN "written" ELSE "exit"
    /\ UNCHANGED <<elems, nlinked, scopes, diagnostics, reused>>

-----------------------------------------------------------------------------
(* Connections: trees that vary in structure and in linking.                *)

ConnProfile ==
    [types |-> {"Task"}, names |-> {<<"A">>}, subtypes |-> {""},
     poolNames |-> {<<"P">>}, laneNames |-> {<<"L">>},
     connectors |-> {"-->", "--", "~~>"}, labels |-> {""},
     maxElems |-> MaxElems, maxConns |-> MaxConns]

NextConn ==
    \/ AddNode(ConnProfile)
    \/ AddConnection(ConnProfile)
    \/ AddPool(ConnProfile)
    \/ AddLane(ConnProfile)
    \/ EndParse
    \/ LinkReference(FALSE)
    \/ Validate

SpecConn == Init /\ [][NextConn]_vars

-----------------------------------------------------------------------------
(* Generation: trees that vary in names, structure and linking.             *)

\* Elements of a document handed to the generator, and connections among them.
GenMaxElems == 3
GenMaxConns == 1

GenProfile ==
    [types |-> {"Task"}, names |-> {<<"A">>, StrFlow}, subtypes |-> {""},
     poolNames |-> {<<"P">>}, laneNames |-> {<<"L">>},
     connectors |-> {"-->", "--", "~~>"}, labels |-> {""},
     maxElems |-> GenMaxElems, maxConns |-> GenMaxConns]

NextGen ==
    \/ AddNode(GenProfile)
    \/ AddConnection(GenProfile)
    \/ AddPool(GenProfile)
    \/ AddLane(GenProfile)
    \/ EndParse
    \/ LinkReference(FALSE)
    \/ GenerateXML

SpecGen == Init /\ [][NextGen]_vars

-----------------------------------------------------------------------------
(* Names: trees without connections that vary in node and container names.  *)

\* Elements of a document whose names are checked.
NamesMaxElems == 5

NamesProfile ==
    [types |-> {"Task"}, names |-> {<<"A">>, <<"B">>}, subtypes |-> {""},
     poolNames |-> {<<"P">>, GlobalScope}, laneNames |-> {<<"L">>, <<"M">>},
     connectors |-> {}, labels |-> {""},
     maxElems |-> NamesMaxElems, maxConns |-> 0]

NextNames ==
    \/ AddNode(NamesProfile)
    \/ AddPool(NamesProfile)
    \/ AddLane(NamesProfile)
    \/ EndParse
    \/ Validate

SpecNames == Init /\ [][NextNames]_vars

-----------------------------------------------------------------------------
(* Regeneration: one generator instance over a document that is extended.   *)

\* Elements of a regenerated document, and connections among them.
RegenMaxElems == 3
RegenMaxConns == 1

RegenProfile ==
    [types |-> {"Task"}, names |-> {<<"A">>}, subtypes |-> {""},
     poolNames |-> {<<"P">>}, laneNames |-> {<<"L">>},
     connectors |-> {"-->", "--", "~~>"}, labels |-> {""},
     maxElems |-> RegenMaxElems, maxConns |-> RegenMaxConns]

NextRegen ==
    \/ AddNode(RegenProfile)
    \/ AddConnection(RegenProfile)
    \/ AddPool(RegenProfile)
    \/ AddLane(RegenProfile)
    \/ EndParse
    \/ LinkReference(FALSE)
    \/ GenerateXML
    \/ EditDocument

SpecRegen == Init /\ [][NextRegen]_vars

-----------------------------------------------------------------------------
(* The driver: parse, link within scope, validate, generate and write.      *)

\* Elements of a document given to the driver, and connections among them.
DriverMaxElems == 5
DriverMaxConns == 1

DriverProfile ==
    [types |-> {"Task"}, names |-> {<<"A">>, <<"B">>}, subtypes |-> {""},
     poolNames |-> {<<"P">>, <<"Q">>}, laneNames |-> {<<"L">>},
     connectors |-> {"-->", "--", "~~>"}, labels |-> {""},
     maxElems |-> DriverMaxElems, maxConns |-> DriverMaxConns]

NextDriver ==
    \/ AddNode(DriverProfile)
    \/ AddConnection(DriverProfile)
    \/ AddPool(DriverProfile)
    \/ AddLane(DriverProfile)
    \/ EndParse
    \/ LinkReference(TRUE)
    \/ Validate
    \/ MainReportErrors
    \/ MainGenerate

SpecDriver == Init /\ [][NextDriver]_vars

-----------------------------------------------------------------------------
(* Compilation: validated trees of pools, tasks and sequence flows or        *)
(* associations, compiled whatever the diagnostics.                         *)

\* Elements of a validated and compiled document, and connections among them.
CompileMaxElems == 5
CompileMaxConns == 1

CompileProfile ==
    [types |-> {"Task"}, names |-> {<<"A">>}, subtypes |-> {""},
     poolNames |-> {<<"P">>}, laneNames |-> {},
     connectors |-> {"-->", "--"}, labels |-> {""},
     maxElems |-> CompileMaxElems, maxConns |-> CompileMaxConns]

NextCompile ==
    \/ AddNode(CompileProfile)
    \/ AddConnection(CompileProfile)
    \/ AddPool(CompileProfile)
    \/ EndParse
    \/ LinkReference(FALSE)
    \/ Validate
    \/ CompileValidated

SpecCompile == Init /\ [][NextCompile]_vars

-----------------------------------------------------------------------------
(* Layout: trees of events, tasks and gateways in pools and lanes, without  *)
(* connections.                                                             *)

\* Elements of a document that is laid out.
LayoutMaxElems == 5

LayoutProfile ==
    [types |-> {"Event", "Task", "Gateway"}, names |-> {<<"A">>}, subtypes |-> {""},
     poolNames |-> {<<"P">>}, laneNames |-> {<<"L">>},
     connectors |-> {}, labels |-> {""},
     maxElems |-> LayoutMaxElems, maxConns |-> 0]

NextLayout ==
    \/ AddNode(LayoutProfile)
    \/ AddPool(LayoutProfile)
    \/ AddLane(LayoutProfile)
    \/ EndParse
    \/ GenerateXML

SpecLayout == Init /\ [][NextLayout]_vars

-----------------------------------------------------------------------------
(* Edges: validated and compiled trees of events and tasks in pools, with   *)
(* connections of every kind.                                               *)

\* Elements of a document whose edges are drawn, and connections among them.
EdgesMaxElems == 4
EdgesMaxConns == 1

EdgesProfile ==
    [types |-> {"Event", "Task"}, names |-> {<<"A">>}, subtypes |-> {""},
     poolNames |-> {<<"P">>}, laneNames |-> {},
     connectors |-> {"-->", "--", "~~>"}, labels |-> {""},
     maxElems |-> EdgesMaxElems, maxConns |-> EdgesMaxConns]

NextEdges ==
    \/ AddNode(EdgesProfile)
    \/ AddConnection(EdgesProfile)
    \/ AddPool(EdgesProfile)
    \/ EndParse
    \/ LinkReference(FALSE)
    \/ Validate
    \/ CompileValidated

SpecEdges == Init /\ [][NextEdges]_vars

-----------------------------------------------------------------------------
(* The driver on small documents: every warning and every error in reach.   *)

\* Elements of a small document given to the driver, and connections among
\* them.
MainMaxElems == 4
MainMaxConns == 1

MainProfile ==
    [types |-> {"Task"}, names |-> {<<"A">>}, subtypes |-> {""},
     poolNames |-> {<<"P">>}, laneNames |-> {<<"L">>},
     connectors |-> {"-->", "--", "~~>"}, labels |-> {""},
     maxElems |-> MainMaxElems, maxConns |-> MainMaxConns]

NextMain ==
    \/ AddNode(MainProfile)
    \/ AddConnection(MainProfile)
    \/ AddPool(MainProfile)
    \/ AddLane(MainProfile)
    \/ EndParse
    \/ LinkReference(TRUE)
    \/ Validate
    \/ MainReportErrors
    \/ MainGenerate

SpecMain == Init /\ [][NextMain]_vars

-----------------------------------------------------------------------------
(* Identifiers: trees whose nodes and pools carry names that meet the       *)
(* generator's own base names.                                              *)

\* Elements of a document with such names, and connections among them.
IdsMaxElems == 3
IdsMaxConns == 1

IdsProfile ==
    [types |-> {"Task"},
     names |-> {StrFlow, <<"D", "e", "f", "i", "n", "i", "t", "i", "o", "n", "s">>,
                <<"P", "r", "o", "c", "e", "s", "s", "_", "P">>},
     subtypes |-> {""},
     poolNames |-> {<<"P">>}, laneNames |-> {},
     connectors |-> {"-->", "~~>"}, labels |-> {""},
     maxElems |-> IdsMaxElems, maxConns |-> IdsMaxConns]

NextIds ==
    \/ AddNode(IdsProfile)
    \/ AddConnection(IdsProfile)
    \/ AddPool(IdsProfile)
    \/ EndParse
    \/ LinkReference(TRUE)
    \/ GenerateXML

SpecIds == Init /\ [][NextIds]_vars

-----------------------------------------------------------------------------
(* Vocabulary of the properties, stated on the tree itself.                 *)

\* The pool that encloses an element: a set with no member or with one.
EnclosingPools(i) == {p \in PoolIds : p \in SelfAndAbove(elems[i].parent)}

IsResolved(c) == elems[c].source # Undefined /\ elems[c].target # Undefined

\* Positions of the error diagnostics accepted on an element.
ErrorsOn(i) ==
    {k \in DOMAIN diagnostics :
        diagnostics[k].node = i /\ diagnostics[k].severity = "error"}

DupErrorsOn(n) ==
    {k \in DOMAIN diagnostics :
        /\ diagnostics[k].node = n
        /\ diagnostics[k].severity = "error"
        /\ diagnostics[k].message = "Duplicate node name in scope."}

MultiWarningsOn(n) ==
    {k \in DOMAIN diagnostics :
        /\ diagnostics[k].node = n
        /\ diagnostics[k].severity = "warning"
        /\ diagnostics[k].message = "Node name is used in multiple containers."}

\* The scope path of a container: the pool's name, then the names of the lanes
\* down to it, joined by dots.
RECURSIVE PathOf(_)
PathOf(container) ==
    IF elems[container].parent = Root THEN elems[container].name
    ELSE PathOf(elems[container].parent) \o <<".">> \o elems[container].name

\* The enclosing-scope path of a node: global when it is in no container.
ScopePath(n) == IF elems[n].parent = Root THEN GlobalScope ELSE PathOf(elems[n].parent)

\* Nodes earlier in tree order that carry the name of node n.
EarlierNamesakes(n) == {m \in NodeIds : m < n /\ elems[m].name = elems[n].name}

-----------------------------------------------------------------------------
(* Connections and pools (checkConnection).                                 *)

\* C1: a resolved message flow gets no error from the validation pass if and
\* only if its source and its target each have an enclosing pool and the two
\* pools are distinct.
MessageFlowAcceptedIffDistinctPools ==
    pc = "validated" =>
        \A c \in ConnIds :
            (elems[c].connector = "~~>" /\ IsResolved(c)) =>
                (ErrorsOn(c) = {}
                 <=> /\ EnclosingPools(elems[c].source) # {}
                     /\ EnclosingPools(elems[c].target) # {}
                     /\ EnclosingPools(elems[c].source) # EnclosingPools(elems[c].target))

\* A validated message flow between nodes of two pools, without an error.
MessageFlowAcrossPoolsAccepted ==
    /\ pc = "validated"
    /\ \E c \in ConnIds :
          /\ elems[c].connector = "~~>"
          /\ IsResolved(c)
          /\ EnclosingPools(elems[c].source) # {}
          /\ EnclosingPools(elems[c].target) # {}
          /\ EnclosingPools(elems[c].source) # EnclosingPools(elems[c].target)
          /\ ErrorsOn(c) = {}

\* C2: a resolved sequence flow or association gets no error from the
\* validation pass if and only if the enclosing pool of its source is the
\* enclosing pool of its target, no pool counting as equal to no pool only.
FlowAcceptedIffSamePool ==
    pc = "validated" =>
        \A c \in ConnIds :
            (elems[c].connector # "~~>" /\ IsResolved(c)) =>
                (ErrorsOn(c) = {}
                 <=> EnclosingPools(elems[c].source) = EnclosingPools(elems[c].target))

\* A validated flow from a node in a lane to a node declared directly in the
\* lane's pool, without an error.
FlowFromLaneToPoolAccepted ==
    /\ pc = "validated"
    /\ \E c \in ConnIds :
          /\ elems[c].connector # "~~>"
          /\ IsResolved(c)
          /\ elems[c].source # elems[c].target
          /\ elems[elems[c].source].parent \in LaneIds
          /\ elems[elems[c].target].parent \in PoolIds
          /\ EnclosingPools(elems[c].source) = {elems[elems[c].target].parent}
          /\ ErrorsOn(c) = {}

-----------------------------------------------------------------------------
(* Candidate sets (getScopeForConnection).                                  *)

FlowScopeByNearestContainer ==
    \A c \in DOMAIN scopes :
        elems[c].connector # "~~>" =>
            IF elems[c].parent \in LaneIds
            THEN scopes[c] = {n \in NodeIds : EnclosingPools(n) = EnclosingPools(c)}
            ELSE IF elems[c].parent \in PoolIds
            THEN scopes[c] = {n \in NodeIds : elems[c].parent \in SelfAndAbove(elems[n].parent)}
            ELSE scopes[c] = {n \in NodeIds : elems[n].parent = Root}

\* A flow declared in a lane with a node of a sibling lane among its
\* candidates.
FlowInLaneSeesSiblingLane ==
    \E c \in DOMAIN scopes :
        /\ elems[c].connector # "~~>"
        /\ elems[c].parent \in LaneIds
        /\ \E n \in scopes[c] :
              /\ elems[n].parent \in LaneIds
              /\ elems[n].parent # elems[c].parent
              /\ elems[c].parent \notin SelfAndAbove(elems[n].parent)
              /\ elems[n].parent \notin SelfAndAbove(elems[c].parent)

-----------------------------------------------------------------------------
(* Names (checkDuplicateNodeNames).                                         *)

\* C5: among the nodes of one name and one enclosing-scope path, the first in
\* tree order gets no duplicate-name error and each later one gets exactly
\* one: k such nodes get k - 1 errors.
OneDuplicateErrorPerLaterOccurrence ==
    pc = "validated" =>
        \A n \in NodeIds :
            Cardinality(DupErrorsOn(n)) =
                IF \E m \in EarlierNamesakes(n) : ScopePath(m) = ScopePath(n) THEN 1 ELSE 0

\* Three nodes of one name in one container: none, one and one error.
ThreeNamesakesTwoErrors ==
    /\ pc = "validated"
    /\ \E a, b, c \in NodeIds :
          /\ a < b /\ b < c
          /\ elems[a].name = elems[b].name /\ elems[b].name = elems[c].name
          /\ elems[a].parent = elems[b].parent /\ elems[b].parent = elems[c].parent
          /\ elems[a].parent # Root
          /\ Cardinality(DupErrorsOn(a)) = 0
          /\ Cardinality(DupErrorsOn(b)) = 1
          /\ Cardinality(DupErrorsOn(c)) = 1

\* C6: a node gets a duplicate-name error only when an earlier node of its
\* name is declared in the same container (the same pool, the same lane, or
\* the root like it); namesakes in different containers cause none, whatever
\* the containers are called.
DuplicateErrorOnlyWithinOneContainer ==
    pc = "validated" =>
        \A n \in NodeIds :
            DupErrorsOn(n) # {} =>
                \E m \in EarlierNamesakes(n) : elems[m].parent = elems[n].parent

\* C7: a node in a container gets the multiple-containers warning exactly
\* when an earlier node of its name is declared in a different container or
\* at the root; a node at the root gets none.
MultipleContainersWarningIffOtherContainer ==
    pc = "validated" =>
        \A n \in NodeIds :
            MultiWarningsOn(n) # {}
            <=> /\ elems[n].parent # Root
                /\ \E m \in EarlierNamesakes(n) : elems[m].parent # elems[n].parent

-----------------------------------------------------------------------------
(* Identifiers (nextId, nodeId, connectionId).                              *)

\* Positions in the invocation's lookups where an entity (a node or a
\* connection) asked for its identifier.
EntityCalls == {k \in DOMAIN calls : calls[k].fn \in {"nodeId", "connectionId"}}

SameEntity(j, k) == calls[j].fn = calls[k].fn /\ calls[j].key = calls[k].key

\* The sanitized base name an entity asks with.
BaseOf(k) ==
    IF calls[k].fn = "nodeId" THEN sanitizeId(elems[calls[k].key].name)
    ELSE IF elems[calls[k].key].connector = "~~>" THEN StrMessageFlow
    ELSE IF elems[calls[k].key].connector \in {"--", ".."} THEN StrAssociation
    ELSE StrFlow

\* The entity's first lookup.
IsFirstCall(k) == \A j \in EntityCalls : (j < k) => ~SameEntity(j, k)

\* At its first lookup the entity is the i-th distinct one to ask with its
\* base name.
RankOf(k) ==
    Cardinality({<<calls[j].fn, calls[j].key>> :
                    j \in {i \in EntityCalls : i <= k /\ BaseOf(i) = BaseOf(k)}})

\* C8: within one invocation every lookup of one node or connection returns
\* the same identifier, distinct entities never get the same identifier, the
\* i-th distinct entity asking with a base name gets base_i, and the i-th
\* draw from a base name returns base_i.
IdentifiersMemoizedInjectiveNumbered ==
    pc = "generated" =>
        /\ \A j, k \in EntityCalls : SameEntity(j, k) <=> calls[j].id = calls[k].id
        /\ \A k \in EntityCalls :
              IsFirstCall(k) =>
                  calls[k].id = BaseOf(k) \o <<"_">> \o CountString(RankOf(k))
        /\ \A k \in DOMAIN calls :
              calls[k].fn = "nextId" =>
                  calls[k].id = calls[k].key \o <<"_">> \o CountString(
                      Cardinality({j \in 1..k : /\ calls[j].fn = "nextId"
                                                /\ calls[j].key = calls[k].key}))

\* Two nodes named A looked up in one completed invocation, as A_1 and A_2,
\* one of them more than once.
TwoNodesNamedAGetA1AndA2 ==
    /\ pc = "generated"
    /\ out.status = "ok"
    /\ \E i, j, k \in EntityCalls :
          /\ calls[i].fn = "nodeId" /\ calls[j].fn = "nodeId"
          /\ calls[i].key # calls[j].key
          /\ elems[calls[i].key].name = <<"A">> /\ elems[calls[j].key].name = <<"A">>
          /\ calls[i].id = <<"A", "_", "1">>
          /\ calls[j].id = <<"A", "_", "2">>
          /\ k # i /\ SameEntity(k, i)

-----------------------------------------------------------------------------
(* Repeated invocations (generateXML, resetIds).                            *)

\* C9: whatever the generator instance compiled before, on this tree or on
\* an earlier one, an invocation returns what a fresh generator returns for
\* the tree.
OutputIsThatOfAFreshGenerator ==
    pc = "generated" => out = generateXML(FreshGenerator).out

\* An invocation that completed on an instance used before on an earlier
\* tree, with identifiers drawn in both.
RegeneratedAfterEdit ==
    /\ pc = "generated"
    /\ reused = "other"
    /\ out.status = "ok"
    /\ NodeIds # {}
    /\ ConnIds # {}

-----------------------------------------------------------------------------
(* Message flows in the output.                                             *)

\* Positions in a list of rendered elements that carry an identifier.
WithId(elements, id) == {k \in DOMAIN elements : elements[k].id = id}

\* The processes of the output whose body holds a flow with the identifier.
ProcessFlows(id) ==
    {p \in DOMAIN out.processes : WithId(out.processes[p].flows, id) # {}}

\* C10: in a written document every message flow of the model, wherever it
\* is declared, is exactly one messageFlow of the collaboration and exactly
\* one edge of the diagram, and is in no process body.
EveryMessageFlowInCollaborationOnce ==
    pc = "written" =>
        \A c \in ConnIds :
            elems[c].connector = "~~>" =>
                /\ c \in DOMAIN gen.connectionIdMap
                /\ out.collaboration # <<>>
                /\ Cardinality(WithId(out.collaboration[1].messageFlows,
                                      gen.connectionIdMap[c])) = 1
                /\ out.diagram # <<>>
                /\ Cardinality({k \in DOMAIN out.diagram[1].edges :
                                   out.diagram[1].edges[k].bpmnElement =
                                       gen.connectionIdMap[c]}) = 1
                /\ ProcessFlows(gen.connectionIdMap[c]) = {}

-----------------------------------------------------------------------------
(* Collaboration and plane target (generateXML, generateDiagram).           *)

\* The pools in declaration order.
PoolSeq == SelectSeq(Ids, LAMBDA i : elems[i].type = "Pool")

\* The message flows the invocation compiled.
CompiledMessageFlows == {c \in ConnIds : isMessageFlow(c) /\ c \in DOMAIN gen.connectionIdMap}

\* C11: the output has a collaboration if and only if the model has a pool
\* or a message flow was compiled; the collaboration lists one participant
\* per pool and the diagram's plane refers to the collaboration; without a
\* collaboration the output is the single global process and the plane
\* refers to it.
CollaborationIffPoolOrMessageFlow ==
    (pc = "generated" /\ out.status = "ok") =>
        /\ out.collaboration # <<>> <=> (PoolIds # {} \/ CompiledMessageFlows # {})
        /\ out.collaboration # <<>> =>
              /\ Len(out.collaboration[1].participants) = Len(PoolSeq)
              /\ \A k \in DOMAIN out.collaboration[1].participants :
                    out.collaboration[1].participants[k].pool = PoolSeq[k]
              /\ out.diagram # <<>> =>
                    out.diagram[1].bpmnElement = out.collaboration[1].id
        /\ out.collaboration = <<>> =>
              /\ Len(out.processes) = 1
              /\ out.diagram # <<>> =>
                    out.diagram[1].bpmnElement = out.processes[1].id

\* A pool with a node compiled: the collaboration lists the pool's
\* participant and the plane refers to the collaboration.
PlaneRefersToCollaboration ==
    /\ pc = "generated"
    /\ out.status = "ok"
    /\ PoolIds # {}
    /\ out.collaboration # <<>>
    /\ Len(out.collaboration[1].participants) > 0
    /\ out.diagram # <<>>
    /\ out.diagram[1].bpmnElement = out.collaboration[1].id

-----------------------------------------------------------------------------
(* Processes and participants (generateXML).                                *)

\* The root holds a node or a connection that is no message flow, or the
\* model has no pool.
HasGlobalGroup ==
    \/ \E n \in NodeIds : elems[n].parent = Root
    \/ \E c \in ConnIds : elems[c].parent = Root /\ elems[c].connector # "~~>"
    \/ PoolIds = {}

GlobalOffset == IF HasGlobalGroup THEN 1 ELSE 0

\* The nodes of a group: those of a pool, or those of the root (pool Root).
GroupNodes(pool) ==
    IF pool = Root THEN {n \in NodeIds : elems[n].parent = Root}
    ELSE {n \in NodeIds : pool \in EnclosingPools(n)}

\* The identifiers of the elements in a process body.
ElementIds(process) == {process.elements[k].id : k \in DOMAIN process.elements}

IdsOf(nodes) == {gen.nodeIdMap[n] : n \in nodes}

\* C12: a global process is synthesized if and only if the root holds a node
\* or a connection that is no message flow, or the model has no pool; every
\* pool yields one process and one participant that refers to it; the
\* output has at least one process; the global process comes first, then the
\* pools' processes in declaration order.
GlobalProcessThenOnePerPool ==
    (pc = "generated" /\ out.status = "ok") =>
        /\ HasGlobalGroup
              <=> \E k \in DOMAIN calls :
                     calls[k].fn = "nextId" /\ calls[k].key = StrProcess
        /\ Len(out.processes) = GlobalOffset + Len(PoolSeq)
        /\ Len(out.processes) >= 1
        /\ \A j, k \in DOMAIN out.processes :
              out.processes[j].id = out.processes[k].id => j = k
        /\ HasGlobalGroup =>
              /\ out.processes[1].id = StrProcess \o <<"_", "1">>
              /\ ElementIds(out.processes[1]) = IdsOf(GroupNodes(Root))
        /\ PoolSeq # <<>> =>
              /\ out.collaboration # <<>>
              /\ Len(out.collaboration[1].participants) = Len(PoolSeq)
              /\ \A k \in DOMAIN PoolSeq :
                    /\ out.collaboration[1].participants[k].pool = PoolSeq[k]
                    /\ out.collaboration[1].participants[k].processRef
                          = out.processes[GlobalOffset + k].id
                    /\ ElementIds(out.processes[GlobalOffset + k])
                          = IdsOf(GroupNodes(PoolSeq[k]))

\* A node at the root and a pool with a node: the global process, then the
\* pool's.
GlobalProcessBeforePoolProcess ==
    /\ pc = "generated"
    /\ out.status = "ok"
    /\ Len(out.processes) = 2
    /\ GroupNodes(Root) # {}
    /\ \E p \in PoolIds : GroupNodes(p) # {}

-----------------------------------------------------------------------------
(* Empty pools (checkPoolElements, generateXML, computeBoundsForNodes).     *)

\* Positions of the warnings accepted on an element.
WarningsOn(i) ==
    {k \in DOMAIN diagnostics :
        diagnostics[k].node = i /\ diagnostics[k].severity = "warning"}

Participants == IF out.collaboration = <<>> THEN <<>> ELSE out.collaboration[1].participants

\* Positions of the participants of a pool in the collaboration.
ParticipantsOf(pool) == {k \in DOMAIN Participants : Participants[k].pool = pool}

DiagramShapes == IF out.diagram = <<>> THEN <<>> ELSE out.diagram[1].shapes
DiagramEdges == IF out.diagram = <<>> THEN <<>> ELSE out.diagram[1].edges

\* Positions of the shapes, and of the edges, drawn for an identifier.
ShapesOf(id) == {k \in DOMAIN DiagramShapes : DiagramShapes[k].bpmnElement = id}
EdgesOf(id) == {k \in DOMAIN DiagramEdges : DiagramEdges[k].bpmnElement = id}

\* C13: a pool without elements gets one warning and no error from the
\* validation pass; in the compiled output no process is the pool's, the
\* pool's participant has no shape, and nothing is drawn for the pool.
EmptyPoolContributesNoProcess ==
    (pc = "compiled" /\ out.status = "ok") =>
        \A p \in PoolIds :
            Children(p) = <<>> =>
                /\ Cardinality(WarningsOn(p)) = 1
                /\ ErrorsOn(p) = {}
                /\ \A k \in ParticipantsOf(p) :
                      /\ WithId(out.processes, Participants[k].processRef) = {}
                      /\ ShapesOf(Participants[k].id) = {}

\* C13, as the code has it: a pool without elements gets one warning and no
\* error from the validation pass; in the compiled output it has one
\* participant, which refers to one process whose body is empty; the
\* participant has no shape, and nothing is drawn for the pool.
EmptyPoolContributesEmptyProcess ==
    (pc = "compiled" /\ out.status = "ok") =>
        \A p \in PoolIds :
            Children(p) = <<>> =>
                /\ Cardinality(WarningsOn(p)) = 1
                /\ ErrorsOn(p) = {}
                /\ Cardinality(ParticipantsOf(p)) = 1
                /\ \A k \in ParticipantsOf(p) :
                      /\ Cardinality(WithId(out.processes, Participants[k].processRef)) = 1
                      /\ \A i \in WithId(out.processes, Participants[k].processRef) :
                            /\ out.processes[i].elements = <<>>
                            /\ out.processes[i].flows = <<>>
                      /\ ShapesOf(Participants[k].id) = {}

\* An empty pool compiled beside a pool whose task is drawn.
EmptyPoolBesideDrawnPool ==
    /\ pc = "compiled"
    /\ out.status = "ok"
    /\ \E p \in PoolIds : Children(p) = <<>>
    /\ \E k \in DOMAIN Participants : ShapesOf(Participants[k].id) # {}

-----------------------------------------------------------------------------
(* Flow nodes and their flows (collectFlowInfo, renderFlowNode).            *)

\* The group an element is compiled in: its pool, or the root.
GroupOf(i) == IF EnclosingPools(i) = {} THEN Root ELSE CHOOSE p \in EnclosingPools(i) : TRUE

\* The rendered elements of the process bodies that carry a node's identifier.
ElementsOf(n) ==
    UNION {{out.processes[p].elements[k] :
               k \in WithId(out.processes[p].elements, gen.nodeIdMap[n])} :
           p \in DOMAIN out.processes}

IdsOfConnections(connections) ==
    [k \in DOMAIN connections |-> gen.connectionIdMap[connections[k]]]

\* The connections of the node's group, in tree order, that are no message
\* flows and end (incoming) or start (outgoing) at the node.
IncomingConnections(n) ==
    SelectSeq(ConnSeq, LAMBDA c : /\ GroupOf(c) = GroupOf(n)
                                  /\ ~isMessageFlow(c)
                                  /\ elems[c].target = n)

OutgoingConnections(n) ==
    SelectSeq(ConnSeq, LAMBDA c : /\ GroupOf(c) = GroupOf(n)
                                  /\ ~isMessageFlow(c)
                                  /\ elems[c].source = n)

\* Of these, the sequence flows.
IncomingSequenceFlows(n) == SelectSeq(IncomingConnections(n), LAMBDA c : ~isAssociation(c))
OutgoingSequenceFlows(n) == SelectSeq(OutgoingConnections(n), LAMBDA c : ~isAssociation(c))

-----------------------------------------------------------------------------
(* Node boxes (generateDiagram, layoutNodes, nodeSize).                     *)

\* The index of a group in compilation order, from 0: the global group first
\* when there is one, then the pools as declared.
GroupIndex(group) ==
    IF group = Root THEN 0
    ELSE GlobalOffset + Cardinality({q \in PoolIds : q < group})

\* The position of a node among the nodes of its group, from 0, in tree order.
PositionInGroup(n) == Cardinality({m \in NodeIds : m < n /\ GroupOf(m) = GroupOf(n)})

BoxOf(n) ==
    [x      |-> 100 + 180 * PositionInGroup(n),
     y      |-> 80 + 220 * GroupIndex(GroupOf(n)),
     width  |-> IF elems[n].type = "Event" THEN 36
                ELSE IF elems[n].type = "Gateway" THEN 50 ELSE 100,
     height |-> IF elems[n].type = "Event" THEN 36
                ELSE IF elems[n].type = "Gateway" THEN 50 ELSE 80]

\* C15: the node at position i of the group with index g has one shape in
\* the diagram, at x = 100 + 180 * i and y = 80 + 220 * g, of 36 by 36 for an
\* event, 50 by 50 for a gateway and 100 by 80 for a task.
NodeBoxByGroupAndPosition ==
    (pc = "generated" /\ out.status = "ok") =>
        \A n \in NodeIds :
            /\ Cardinality(ShapesOf(gen.nodeIdMap[n])) = 1
            /\ \A k \in ShapesOf(gen.nodeIdMap[n]) :
                  /\ DiagramShapes[k].bounds = BoxOf(n)
                  /\ ~DiagramShapes[k].isHorizontal

\* A gateway second in the third group, after the global group and an empty
\* pool: its box is at (280, 520).
GatewaySecondInThirdGroup ==
    /\ pc = "generated"
    /\ out.status = "ok"
    /\ \E n \in NodeIds :
          /\ elems[n].type = "Gateway"
          /\ \E p \in PoolIds : Children(p) = <<>> /\ p < GroupOf(n)
          /\ \E k \in ShapesOf(gen.nodeIdMap[n]) :
                DiagramShapes[k].bounds = [x |-> 280, y |-> 520, width |-> 50, height |-> 50]

-----------------------------------------------------------------------------
(* Participant boxes (generateDiagram, computeBoundsForNodes).              *)

\* The rectangle is the smallest one that holds the boxes of the nodes,
\* enlarged by the margin on each side.
HoldsTightly(rect, nodes, margin) ==
    /\ \A n \in nodes :
          /\ BoxOf(n).x >= rect.x + margin
          /\ BoxOf(n).y >= rect.y + margin
          /\ BoxOf(n).x + BoxOf(n).width <= rect.x + rect.width - margin
          /\ BoxOf(n).y + BoxOf(n).height <= rect.y + rect.height - margin
    /\ \E n \in nodes : BoxOf(n).x = rect.x + margin
    /\ \E n \in nodes : BoxOf(n).y = rect.y + margin
    /\ \E n \in nodes : BoxOf(n).x + BoxOf(n).width = rect.x + rect.width - margin
    /\ \E n \in nodes : BoxOf(n).y + BoxOf(n).height = rect.y + rect.height - margin

\* C16: every pool has one participant in the collaboration; the participant
\* of a pool whose group has a node has one shape, the smallest rectangle
\* that holds the boxes of the group's nodes enlarged by 40 on each side;
\* the participant of a pool whose group has no node has no shape.
ParticipantBoxHoldsGroupWithPadding ==
    (pc = "generated" /\ out.status = "ok") =>
        \A p \in PoolIds :
            /\ Cardinality(ParticipantsOf(p)) = 1
            /\ \A i \in ParticipantsOf(p) :
                  IF GroupNodes(p) = {}
                  THEN ShapesOf(Participants[i].id) = {}
                  ELSE /\ Cardinality(ShapesOf(Participants[i].id)) = 1
                       /\ \A k \in ShapesOf(Participants[i].id) :
                             /\ HoldsTightly(DiagramShapes[k].bounds, GroupNodes(p), 40)
                             /\ DiagramShapes[k].isHorizontal

\* A pool with an event and a task, one of them in a lane, beside a pool
\* without nodes: the first has a participant shape.
PoolOfEventAndTaskBoxed ==
    /\ pc = "generated"
    /\ out.status = "ok"
    /\ \E p, q \in PoolIds :
          /\ GroupNodes(q) = {}
          /\ \E n, m \in GroupNodes(p) :
                /\ elems[n].type = "Event" /\ elems[m].type = "Task"
                /\ elems[n].parent # elems[m].parent
          /\ \E i \in ParticipantsOf(p) : ShapesOf(Participants[i].id) # {}

-----------------------------------------------------------------------------
(* Edges (generateDiagram, renderEdge, renderMessageEdge, centerPoint).     *)

\* The connection is in a group that is compiled: a pool's, or the global
\* group when there is one.
IsCompiled(c) == GroupOf(c) # Root \/ HasGlobalGroup

\* The center of a node's box.
CenterOf(n) ==
    [x |-> BoxOf(n).x + BoxOf(n).width \div 2, y |-> BoxOf(n).y + BoxOf(n).height \div 2]

\* C17: every compiled connection, a sequence flow, an association or a
\* message flow, has one edge in the diagram, with two waypoints: the center
\* of the source's box, then the center of the target's box, whatever the
\* groups of the two nodes.
EdgeJoinsCentersOfEndpoints ==
    (pc = "compiled" /\ out.status = "ok") =>
        \A c \in ConnIds :
            IsCompiled(c) =>
                /\ c \in DOMAIN gen.connectionIdMap
                /\ Cardinality(EdgesOf(gen.connectionIdMap[c])) = 1
                /\ \A k \in EdgesOf(gen.connectionIdMap[c]) :
                      DiagramEdges[k].waypoints
                          = <<CenterOf(elems[c].source), CenterOf(elems[c].target)>>

\* A message flow from an event to a task of another group: its edge runs
\* between the two centers.
MessageEdgeAcrossGroups ==
    /\ pc = "compiled"
    /\ out.status = "ok"
    /\ \E c \in ConnIds :
          /\ isMessageFlow(c)
          /\ IsResolved(c)
          /\ IsCompiled(c)
          /\ elems[elems[c].source].type = "Event"
          /\ elems[elems[c].target].type = "Task"
          /\ GroupOf(elems[c].source) # GroupOf(elems[c].target)
          /\ \E k \in EdgesOf(gen.connectionIdMap[c]) :
                /\ DiagramEdges[k].waypoints[1] = CenterOf(elems[c].source)
                /\ DiagramEdges[k].waypoints[2] = CenterOf(elems[c].target)

-----------------------------------------------------------------------------
(* Connections across pools, validated and compiled (checkConnection,       *)
(* generateDiagram, renderEdge, centerPoint).                               *)

\* A sequence flow or an association whose two nodes are in two pools.
CrossesPools(c) ==
    /\ ~isMessageFlow(c)
    /\ IsResolved(c)
    /\ EnclosingPools(elems[c].source) # {}
    /\ EnclosingPools(elems[c].target) # {}
    /\ EnclosingPools(elems[c].source) # EnclosingPools(elems[c].target)

\* Positions of the diagnostics accepted on an element.
DiagnosticsOn(i) == {k \in DOMAIN diagnostics : diagnostics[k].node = i}

Origin == [x |-> 0, y |-> 0]

-----------------------------------------------------------------------------
(* Self-loops and unresolved references (checkConnection).                  *)

SelfLoopWarningsOn(c) ==
    {k \in WarningsOn(c) : diagnostics[k].message = "Self-loops are not recommended in BPMN."}

IsSelfLoop(c) == IsResolved(c) /\ elems[c].source = elems[c].target

\* C19: a connection gets the self-loop warning, once, if and only if its
\* source and its target are resolved and are the same node; it gets no
\* other warning; a self-loop that is no message flow gets no error.
SelfLoopWarnedOnce ==
    pc = "validated" =>
        \A c \in ConnIds :
            /\ Cardinality(SelfLoopWarningsOn(c)) = IF IsSelfLoop(c) THEN 1 ELSE 0
            /\ WarningsOn(c) = SelfLoopWarningsOn(c)
            /\ (IsSelfLoop(c) /\ elems[c].connector # "~~>") => ErrorsOn(c) = {}

\* A sequence flow from a task of a pool to itself, validated: one
\* diagnostic, the warning.
SequenceSelfLoopInPoolWarned ==
    /\ pc = "validated"
    /\ \E c \in ConnIds :
          /\ elems[c].connector = "-->"
          /\ IsSelfLoop(c)
          /\ EnclosingPools(elems[c].source) # {}
          /\ Cardinality(DiagnosticsOn(c)) = 1
          /\ Cardinality(SelfLoopWarningsOn(c)) = 1

\* Positions of the diagnostics on a connection that name a property of it.
DiagnosticsOnProperty(c, property) ==
    {k \in DiagnosticsOn(c) : diagnostics[k].property = property}

\* C20: a connection with an unresolved source or target is validated and
\* gets one error on the property source if its source is unresolved, one
\* error on the property target if its target is unresolved, and no other
\* diagnostic.
UnresolvedEndpointsReportedAlone ==
    pc = "validated" =>
        \A c \in ConnIds :
            ~IsResolved(c) =>
                /\ Cardinality(DiagnosticsOnProperty(c, "source"))
                      = IF elems[c].source = Undefined THEN 1 ELSE 0
                /\ Cardinality(DiagnosticsOnProperty(c, "target"))
                      = IF elems[c].target = Undefined THEN 1 ELSE 0
                /\ \A k \in DiagnosticsOnProperty(c, "source") :
                      /\ diagnostics[k].severity = "error"
                      /\ diagnostics[k].message = "Connection source node is not defined."
                /\ \A k \in DiagnosticsOnProperty(c, "target") :
                      /\ diagnostics[k].severity = "error"
                      /\ diagnostics[k].message = "Connection target node is not defined."
                /\ DiagnosticsOn(c)
                      = DiagnosticsOnProperty(c, "source") \cup DiagnosticsOnProperty(c, "target")

\* A connection with its source unresolved and its target a task of a pool,
\* validated: one diagnostic, on the source.
UnresolvedSourceReported ==
    /\ pc = "validated"
    /\ \E c \in ConnIds :
          /\ elems[c].source = Undefined
          /\ elems[c].target # Undefined
          /\ EnclosingPools(elems[c].target) # {}
          /\ Cardinality(DiagnosticsOn(c)) = 1
          /\ Cardinality(DiagnosticsOnProperty(c, "source")) = 1

-----------------------------------------------------------------------------
(* The driver's decision (main).                                            *)

HasError == \E k \in DOMAIN diagnostics : diagnostics[k].severity = "error"
HasWarning == \E k \in DOMAIN diagnostics : diagnostics[k].severity = "warning"

\* The generator was invoked: it returned a document or threw.
GeneratorInvoked == out.status # "none"

\* What holds of every state of a run of the driver.
GeneratedOnlyWhenValidatedWithoutErrors ==
    /\ GeneratorInvoked =>
          /\ pc \in {"written", "exit"}
          /\ diagnostics = validateDocument
          /\ ~HasError
    /\ pc = "written" => out.status = "ok"
    /\ pc = "exit" => (HasError /\ ~GeneratorInvoked)

\* What the driver does with a validated document.
StopsOnErrorElseWrites ==
    pc = "validated" =>
        IF HasError THEN pc' = "exit" /\ out' = out
        ELSE pc' = "written" /\ out'.status = "ok"

\* C21: the driver invokes the generator only on a validated document whose
\* diagnostics hold no error; with an error the run ends with the generator
\* never invoked and nothing written; without an error, whatever the
\* warnings, the driver's step is the generation and the document is written.
GenerationOnlyWithoutErrors ==
    []GeneratedOnlyWhenValidatedWithoutErrors /\ [][StopsOnErrorElseWrites]_vars

\* A document with a warning and no error, written.
WrittenDespiteWarnings ==
    /\ pc = "written"
    /\ HasWarning
    /\ out.status = "ok"

\* A run ended by an error, the generator never invoked.
StoppedByError ==
    /\ pc = "exit"
    /\ HasError
    /\ ~GeneratorInvoked

-----------------------------------------------------------------------------
(* Trees with errors given to the generator (generateXML, nodeId).          *)

\* The tag a node is rendered with when its subtype is absent.
DefaultTag(n) ==
    IF elems[n].type = "Event" THEN "intermediateThrowEvent"
    ELSE IF elems[n].type = "Task" THEN "task"
    ELSE "exclusiveGateway"

\* C22: for every tree, those with unresolved connection endpoints included,
\* generateXML returns a document; in it a node without subtype has its
\* default tag, and the edge of a compiled connection has the waypoint
\* (0, 0) for an endpoint that is unresolved.
GenerateXMLAlwaysReturnsDocument ==
    pc = "generated" =>
        /\ out.status = "ok"
        /\ \A n \in NodeIds :
              elems[n].subtype = "" => \A e \in ElementsOf(n) : e.tag = DefaultTag(n)
        /\ \A c \in ConnIds :
              IsCompiled(c) =>
                  /\ c \in DOMAIN gen.connectionIdMap
                  /\ EdgesOf(gen.connectionIdMap[c]) # {}
                  /\ \A k \in EdgesOf(gen.connectionIdMap[c]) :
                        /\ elems[c].source = Undefined =>
                              DiagramEdges[k].waypoints[1] = Origin
                        /\ elems[c].target = Undefined =>
                              DiagramEdges[k].waypoints[2] = Origin

-----------------------------------------------------------------------------
(* Scope provider and validator together (getScopeForConnection,            *)
(* checkConnection).                                                        *)

\* The messages of the errors accepted on a connection.
ErrorMessagesOn(c) == {diagnostics[k].message : k \in ErrorsOn(c)}

\* Both references of the connection are bound to candidates of its scope.
LinkedWithinScope(c) ==
    /\ IsResolved(c)
    /\ c \in DOMAIN scopes
    /\ elems[c].source \in scopes[c]
    /\ elems[c].target \in scopes[c]

\* C23: a sequence flow or an association, wherever it is declared, whose
\* source and target are any two candidates of its scope gets neither the
\* pool-crossing error nor the pooled/unpooled-mixing error; a message flow
\* whose source and target are any two candidates of its scope does not get
\* the error of an endpoint without enclosing pool.
ScopeCandidatesPassContainment ==
    pc = "validated" =>
        \A c \in ConnIds :
            LinkedWithinScope(c) =>
                IF elems[c].connector = "~~>"
                THEN /\ "Message flows must connect nodes in different pools."
                           \notin ErrorMessagesOn(c)
                     /\ EnclosingPools(elems[c].source) # {}
                     /\ EnclosingPools(elems[c].target) # {}
                ELSE /\ "Connections cannot cross pool boundaries." \notin ErrorMessagesOn(c)
                     /\ "Connections cannot mix pooled and unpooled nodes."
                           \notin ErrorMessagesOn(c)
                     /\ ErrorsOn(c) = {}
                     /\ EnclosingPools(elems[c].source) = EnclosingPools(elems[c].target)

\* A sequence flow declared in a lane and linked to a node of the pool
\* outside the lane, validated without error.
LaneConnectionLinkedToPoolNode ==
    /\ pc = "validated"
    /\ \E c \in ConnIds :
          /\ elems[c].connector = "-->"
          /\ LinkedWithinScope(c)
          /\ elems[c].parent \in LaneIds
          /\ elems[elems[c].source].parent # elems[c].parent
          /\ ErrorsOn(c) = {}

-----------------------------------------------------------------------------
(* Identifiers of one document (nextId, the templates of generateXML,       *)
(* renderShape, renderEdge).                                                *)

\* The id attribute of each element of a list of rendered elements.
IdsIn(elements) == [k \in DOMAIN elements |-> elements[k].id]

RECURSIVE BodyIds(_)
\* The id attributes in the bodies of the processes from position p on.
BodyIds(p) ==
    IF p > Len(out.processes) THEN <<>>
    ELSE <<out.processes[p].id>> \o IdsIn(out.processes[p].elements)
         \o IdsIn(out.processes[p].flows) \o BodyIds(p + 1)

\* Every id attribute of the returned document, in document order.
DocumentIds ==
    <<out.definitionsId>>
    \o BodyIds(1)
    \o (IF out.collaboration = <<>> THEN <<>>
        ELSE <<out.collaboration[1].id>> \o IdsIn(out.collaboration[1].participants)
             \o IdsIn(out.collaboration[1].messageFlows))
    \o (IF out.diagram = <<>> THEN <<>>
        ELSE <<out.diagram[1].id, out.diagram[1].planeId>>
             \o IdsIn(out.diagram[1].shapes) \o IdsIn(out.diagram[1].edges))

\* C24: the id attributes of one returned document are pairwise distinct,
\* whatever the names of the nodes and of the pools.
DocumentIdsPairwiseDistinct ==
    (pc = "generated" /\ out.status = "ok") =>
        \A j, k \in DOMAIN DocumentIds : DocumentIds[j] = DocumentIds[k] => j = k

-----------------------------------------------------------------------------
(* Boxes against each other (generateDiagram, layoutNodes, nodeSize,        *)
(* computeBoundsForNodes).                                                  *)

\* Two boxes share a point of the plane.
Overlap(a, b) ==
    /\ a.x < b.x + b.width
    /\ b.x < a.x + a.width
    /\ a.y < b.y + b.height
    /\ b.y < a.y + a.height

\* Box a lies inside box b.
Inside(a, b) ==
    /\ b.x <= a.x
    /\ a.x + a.width <= b.x + b.width
    /\ b.y <= a.y
    /\ a.y + a.height <= b.y + b.height

\* The boxes drawn for a node, and for the participant of a pool.
NodeBoxes(n) == {DiagramShapes[k].bounds : k \in ShapesOf(gen.nodeIdMap[n])}

PoolBoxes(p) ==
    UNION {{DiagramShapes[k].bounds : k \in ShapesOf(Participants[i].id)} :
           i \in ParticipantsOf(p)}

\* C25: in a returned document the boxes of two nodes never overlap, the
\* participant boxes of two pools never overlap, and the box of a node lies
\* inside the participant box of its own pool and inside that of no other
\* pool; the box of a node of the global group lies inside none.
BoxesDisjointAndNested ==
    (pc = "generated" /\ out.status = "ok") =>
        /\ \A n, m \in NodeIds :
              n # m => \A a \in NodeBoxes(n), b \in NodeBoxes(m) : ~Overlap(a, b)
        /\ \A p, q \in PoolIds :
              p # q => \A a \in PoolBoxes(p), b \in PoolBoxes(q) : ~Overlap(a, b)
        /\ \A n \in NodeIds, p \in PoolIds :
              IF GroupOf(n) = p
              THEN /\ NodeBoxes(n) # {}
                   /\ PoolBoxes(p) # {}
                   /\ \A a \in NodeBoxes(n), b \in PoolBoxes(p) : Inside(a, b)
              ELSE \A a \in NodeBoxes(n), b \in PoolBoxes(p) :
                       ~Inside(a, b) /\ ~Overlap(a, b)

\* A node of the global group and two pools with a node each, all drawn.
ThreeRowsTwoParticipantBoxes ==
    /\ pc = "generated"
    /\ out.status = "ok"
    /\ \E n \in NodeIds : GroupOf(n) = Root /\ NodeBoxes(n) # {}
    /\ \E p, q \in PoolIds : p # q /\ PoolBoxes(p) # {} /\ PoolBoxes(q) # {}

====
